---------------------------- MODULE Spec2Model ----------------------------
(***************************************************************************)
(* Lawyer_Chatbot: the conversation state machines of app/handlers.py      *)
(* (Quick, Booking, Document), the lead store of app/db.py and the staff   *)
(* mutations of app/admin.py, as dispatched by main.py.                    *)
(*                                                                         *)
(* Scheduling.  main.py builds Dispatcher() with no arguments: the FSM     *)
(* storage is the in-memory one and no event isolation is installed, and   *)
(* start_polling handles every update in a task of its own.  A task runs   *)
(* without interruption between two awaits that really suspend (database,  *)
(* network, thread); the in-memory FSM storage never suspends.  An update  *)
(* is therefore modelled as a task: Deliver reads the session state and    *)
(* selects the first handler whose filters match, DBUserMiddleware then    *)
(* awaits the database, and the handler body runs later, in one or more    *)
(* atomic segments.                                                        *)
(*                                                                         *)
(* Text.  A message text is a token (a string); Chars gives the characters *)
(* of the token, on which norm, the regular expressions and the length     *)
(* test are computed.  The Ukrainian button titles are written in ASCII.   *)
(***************************************************************************)
EXTENDS Integers, Sequences, FiniteSets, TLC

\* ----------------------------------------------------------------- bounds
MaxLeads == 2        \* leads ever created in one behaviour
MaxOverlap == 1      \* updates delivered while another update is in flight
MaxRuns == 2         \* flow entries of one user in one behaviour
MaxFiles == 1        \* files held by the Document flow's upload step
MaxNow == 91         \* days that pass in one behaviour

Users == {1}
Admins == {8, 9}
Null == "null"

\* ------------------------------------------------------- program constants
MAX_PDFS == 2
BriefLimit == 500

\* ------------------------------------------------------------- characters
Digits == {"0", "1", "2", "3", "4", "5", "6", "7", "8", "9"}
Spaces == {" ", "\n", "\t"}
Emoji == {"[rocket]", "[zap]", "[phone]", "[books]", "[judge]", "[house]"}

lower(c) ==
    CASE c = "Q" -> "q" [] c = "B" -> "b" [] c = "A" -> "a"
      [] c = "M" -> "m" [] c = "S" -> "s" [] c = "O" -> "o"
      [] OTHER -> c

NotEmoji(c) == c \notin Emoji
RemoveEmoji(cs) == SelectSeq(cs, NotEmoji)

\* re.sub(r"\s+", " ", s): every run of whitespace becomes one space
RunStart(p) == ~(p[1] \in Spaces /\ p[2] \in Spaces)
WithPrev(cs) ==
    [i \in 1..Len(cs) |-> <<cs[i], IF i = 1 THEN "" ELSE cs[i - 1]>>]
AsSpace(kept) ==
    [i \in 1..Len(kept) |->
        IF kept[i][1] \in Spaces THEN " " ELSE kept[i][1]]
Collapse(cs) == AsSpace(SelectSeq(WithPrev(cs), RunStart))

RECURSIVE LStrip(_)
LStrip(cs) ==
    IF cs # <<>> /\ Head(cs) \in Spaces THEN LStrip(Tail(cs)) ELSE cs

RECURSIVE RStrip(_)
RStrip(cs) ==
    IF cs # <<>> /\ cs[Len(cs)] \in Spaces
    THEN RStrip(SubSeq(cs, 1, Len(cs) - 1)) ELSE cs

strip(cs) == RStrip(LStrip(cs))

Lower(s) == [i \in 1..Len(s) |-> lower(s[i])]
norm(cs) == Lower(strip(Collapse(RemoveEmoji(cs))))

\* ------------------------------------------------------ validation helpers
\* the longest prefix length n of cs from position i with every char in S
RECURSIVE RunLen(_, _, _)
RunLen(cs, i, S) ==
    IF i <= Len(cs) /\ cs[i] \in S THEN 1 + RunLen(cs, i + 1, S) ELSE 0

\* `$` of re.match: the end, or just before one trailing newline
AtEnd(cs, i) == i = Len(cs) + 1 \/ (i = Len(cs) /\ cs[i] = "\n")

\* ^\+?\d[\d\-\s]{6,}$
RX_PHONE(cs) ==
    LET p == IF cs # <<>> /\ cs[1] = "+" THEN 2 ELSE 1
        n == RunLen(cs, p + 1, Digits \cup {"-"} \cup Spaces)
    IN  /\ p <= Len(cs) /\ cs[p] \in Digits
        /\ \E k \in 6..n : AtEnd(cs, p + 1 + k)

\* ^@[A-Za-z0-9_]{5,}$
WordChars ==
    Digits \cup {"_", "a", "b", "c", "d", "e", "l", "n", "o", "t", "u", "m",
                 "s", "k", "i", "p", "O", "Q", "B", "A", "M", "S"}

RX_TG(cs) ==
    /\ cs # <<>> /\ cs[1] = "@"
    /\ LET n == RunLen(cs, 2, WordChars)
       IN  n >= 5 /\ AtEnd(cs, 2 + n)

\* ^[^@\s]+@[^@\s]+\.[^@\s]+$
Plain(cs, a, b) ==
    a <= b /\ \A i \in a..b : cs[i] \notin Spaces \cup {"@"}

RX_EMAIL(cs) ==
    \E e \in {Len(cs)} \cup (IF cs # <<>> /\ cs[Len(cs)] = "\n"
                             THEN {Len(cs) - 1} ELSE {}) :
      \E at \in 2..e : \E dot \in (at + 2)..(e - 1) :
        /\ cs[at] = "@" /\ cs[dot] = "."
        /\ Plain(cs, 1, at - 1) /\ Plain(cs, at + 1, dot - 1)
        /\ Plain(cs, dot + 1, e)

valid_contact(cs) == RX_PHONE(cs) \/ RX_TG(cs)
valid_email(cs) == RX_EMAIL(cs)


\* ------------------------------------------------------------------ texts
\* Button titles, in ASCII: Quick = "Швидке питання", Book = "Записатися на
\* консультацію", Blog = "Статті та гіди", About = "Про юриста / Контакти",
\* Menu = "Меню", Start = "Розпочати", Back = "Назад", Skip = "Пропустити".
T_QUICK == "[zap] Quick"
T_BOOK == "[phone] Book"
T_BLOG == "[books] Blog"
T_ABOUT == "[judge] About"
T_MENU == "[house] Menu"
T_START == "[rocket] Start"
T_BACK == "[left] Back"
T_SKIP == "[next] Skip"
T_CMD_DOCUMENT == "/document"
T_CMD_START == "/start"
T_NAME == "Olena"
T_PHONE == "+380991234567"
T_EMAIL == "a@b.co"
T_LONG == "x * 501"
T_DASH == "-"
T_MDASH == "[mdash]"
T_FIVE_DIGITS == "12345"
T_SEVEN_DIGITS == "1234567"
T_ONE_DIGIT == "1------"
T_SPACED_PHONE == "+1 234-567 8"
T_HANDLE5 == "@abcde"
T_HANDLE4 == "@abcd"
T_TWO_LINES == "theft[newline]bail"

\* bound on the inputs: the texts sent while a flow is walked in any order
FlowTexts ==
    {T_QUICK, T_BOOK, T_BLOG, T_ABOUT, T_MENU, T_START, T_BACK, T_SKIP,
     T_CMD_DOCUMENT, T_CMD_START, T_NAME, T_PHONE, T_EMAIL, T_LONG, T_DASH,
     T_MDASH}

\* bound on the inputs: the strings typed at a contact step
ContactTexts ==
    {T_PHONE, T_FIVE_DIGITS, T_SEVEN_DIGITS, T_ONE_DIGIT, T_SPACED_PHONE,
     T_HANDLE5, T_HANDLE4}

\* bound on the inputs: a brief of two lines
BriefTexts == {T_TWO_LINES}

Texts == FlowTexts \cup ContactTexts \cup BriefTexts

Chars(t) ==
    CASE t = T_QUICK -> <<"[zap]", " ", "Q", "u", "i", "c", "k">>
      [] t = T_BOOK -> <<"[phone]", " ", "B", "o", "o", "k">>
      [] t = T_BLOG -> <<"[books]", " ", "B", "l", "o", "g">>
      [] t = T_ABOUT -> <<"[judge]", " ", "A", "b", "o", "u", "t">>
      [] t = T_MENU -> <<"[house]", " ", "M", "e", "n", "u">>
      [] t = T_START -> <<"[rocket]", " ", "S", "t", "a", "r", "t">>
      [] t = T_BACK -> <<"[left]", " ", "B", "a", "c", "k">>
      [] t = T_SKIP -> <<"[next]", " ", "S", "k", "i", "p">>
      [] t = T_CMD_DOCUMENT -> <<"/", "d", "o", "c", "u", "m", "e", "n", "t">>
      [] t = T_CMD_START -> <<"/", "s", "t", "a", "r", "t">>
      [] t = T_NAME -> <<"O", "l", "e", "n", "a">>
      [] t = T_PHONE -> <<"+", "3", "8", "0", "9", "9", "1", "2", "3", "4",
                          "5", "6", "7">>
      [] t = T_EMAIL -> <<"a", "@", "b", ".", "c", "o">>
      [] t = T_LONG -> [i \in 1..(BriefLimit + 1) |-> "x"]
      [] t = T_DASH -> <<"-">>
      [] t = T_MDASH -> <<"[mdash]">>
      [] t = T_FIVE_DIGITS -> <<"1", "2", "3", "4", "5">>
      [] t = T_SEVEN_DIGITS -> <<"1", "2", "3", "4", "5", "6", "7">>
      [] t = T_ONE_DIGIT -> <<"1", "-", "-", "-", "-", "-", "-">>
      [] t = T_SPACED_PHONE -> <<"+", "1", " ", "2", "3", "4", "-", "5", "6",
                                 "7", " ", "8">>
      [] t = T_HANDLE5 -> <<"@", "a", "b", "c", "d", "e">>
      [] t = T_HANDLE4 -> <<"@", "a", "b", "c", "d">>
      [] t = T_TWO_LINES -> <<"t", "h", "e", "f", "t", "\n", "b", "a", "i",
                              "l">>

\* the lower-cased titles of BTN_TITLES
BTN_SET ==
    {<<"q", "u", "i", "c", "k">>, <<"b", "o", "o", "k">>,
     <<"b", "l", "o", "g">>, <<"a", "b", "o", "u", "t">>,
     <<"m", "e", "n", "u">>}

N_QUICK == <<"q", "u", "i", "c", "k">>
N_BOOK == <<"b", "o", "o", "k">>
N_BLOG == <<"b", "l", "o", "g">>
N_ABOUT == <<"a", "b", "o", "u", "t">>
N_MENU == <<"m", "e", "n", "u">>
N_START == <<"s", "t", "a", "r", "t">>

\* computed once: norm(text), text.strip(), len(text), the validators
NormOf == [t \in Texts |-> norm(Chars(t))]
StripOf == [t \in Texts |-> CHOOSE s \in Texts : Chars(s) = strip(Chars(t))]
LenOf == [t \in Texts |-> Len(Chars(t))]
ValidContactOf == [t \in Texts |-> valid_contact(Chars(t))]
ValidEmailOf == [t \in Texts |-> valid_email(Chars(t))]

\* Command("name") / CommandStart(): the text is "/name", alone or followed
\* by a space and arguments
IsCommand(t, name) ==
    LET cs == Chars(t)
        n == Len(name)
    IN  /\ Len(cs) >= n + 1 /\ cs[1] = "/"
        /\ SubSeq(cs, 2, n + 1) = name
        /\ (Len(cs) = n + 1 \/ cs[n + 2] \in Spaces)

CmdOf ==
    [t \in Texts |->
        IF IsCommand(t, <<"s", "t", "a", "r", "t">>) THEN "start"
        ELSE IF IsCommand(t, <<"d", "o", "c", "u", "m", "e", "n", "t">>)
             THEN "document"
        ELSE Null]

SlashOf == [t \in Texts |-> Chars(t) # <<>> /\ Chars(t)[1] = "/"]

\* ----------------------------------------------------------------- events
\* callback data, split at ":" 
CB_BACK == <<"common", "back">>
Callbacks ==
    {CB_BACK,
     <<"quick", "cat", "criminal">>,
     <<"quick", "urg", "today">>,
     <<"offer", "30">>, <<"offer", "skip">>,
     <<"book", "fmt", "phone">>,
     <<"book", "dur", "60">>,
     <<"doc", "type", "contract">>,
     <<"doc", "plan", "express">>}

\* F.data.startswith(prefix + ":")
StartsWith(d, prefix) ==
    Len(d) > Len(prefix) /\ SubSeq(d, 1, Len(prefix)) = prefix

\* call.data.split(":")[-1]
LastPart(d) == d[Len(d)]

MIME_PDF == "application/pdf"
MIME_PNG == "image/png"
ALLOWED_DOC_MIMES == {MIME_PDF}
SHARED_PHONE == "+380991234567"

Events ==
    [kind : {"text"}, val : FlowTexts, file : {Null}]
    \cup [kind : {"callback"}, val : Callbacks, file : {Null}]
    \cup {[kind |-> "document", val |-> MIME_PDF, file |-> "f1"],
          [kind |-> "document", val |-> MIME_PNG, file |-> "f2"],
          [kind |-> "photo", val |-> Null, file |-> "f2"],
          [kind |-> "contact", val |-> SHARED_PHONE, file |-> Null]}

\* ----------------------------------------------------------- FSM states
NoState == "None"
QuickSteps ==
    <<"Quick:category", "Quick:brief", "Quick:urgency", "Quick:offer",
      "Quick:name", "Quick:contact", "Quick:email">>
BookingSteps ==
    <<"Booking:fmt", "Booking:dur", "Booking:name", "Booking:contact",
      "Booking:email">>
DocumentSteps == <<"DocumentFlow:type", "DocumentFlow:upload",
                   "DocumentFlow:plan">>

Range(s) == {s[i] : i \in DOMAIN s}
Steps == Range(QuickSteps) \cup Range(BookingSteps) \cup Range(DocumentSteps)

\* ------------------------------------------------------ handler selection
\* The message handlers of app/handlers.py in registration order; the first
\* whose filters match the update handles it.
IsText(ev) == ev.kind = "text"
NormIs(ev, n) == IsText(ev) /\ NormOf[ev.val] = n
TextIs(ev, t) == IsText(ev) /\ ev.val = t

SelectMessage(st, ev) ==
    CASE NormIs(ev, N_BLOG) -> "blog_menu"
      [] IsText(ev) /\ CmdOf[ev.val] = "start" -> "cmd_start"
      [] NormIs(ev, N_START) -> "start_button"
      [] NormIs(ev, N_MENU) -> "back_to_menu"
      [] NormIs(ev, N_ABOUT) -> "about"
      [] NormIs(ev, N_QUICK) -> "quick_entry"
      [] st = "Quick:brief" /\ ev.kind = "document" -> "quick_brief_pdf"
      [] st = "Quick:brief" /\ TextIs(ev, T_BACK) -> "quick_brief_back"
      [] st = "Quick:brief" /\ IsText(ev) /\ LenOf[ev.val] <= BriefLimit
            -> "quick_brief_ok"
      [] st = "Quick:brief" -> "quick_brief_long"
      [] st = "Quick:name" /\ TextIs(ev, T_BACK) -> "quick_name_back"
      [] st = "Quick:name" /\ IsText(ev) -> "quick_name"
      [] st = "Quick:contact" /\ ev.kind = "contact" -> "quick_contact_shared"
      [] st = "Quick:contact" /\ TextIs(ev, T_BACK) -> "quick_contact_back"
      [] st = "Quick:contact" /\ IsText(ev) /\ ValidContactOf[ev.val]
            -> "quick_contact_ok"
      [] st = "Quick:contact" -> "quick_contact_bad"
      [] st = "Quick:email" /\ TextIs(ev, T_BACK) -> "quick_email_back"
      [] st = "Quick:email" /\ TextIs(ev, T_SKIP) -> "quick_email_skip"
      [] st = "Quick:email" /\ IsText(ev) -> "quick_email"
      [] NormIs(ev, N_BOOK) -> "booking_entry"
      [] st = "Booking:name" /\ TextIs(ev, T_BACK) -> "booking_name_back"
      [] st = "Booking:name" /\ IsText(ev) -> "booking_name"
      [] st = "Booking:contact" /\ ev.kind = "contact"
            -> "booking_contact_shared"
      [] st = "Booking:contact" /\ TextIs(ev, T_BACK) -> "booking_contact_back"
      [] st = "Booking:contact" /\ IsText(ev) /\ ValidContactOf[ev.val]
            -> "booking_contact_ok"
      [] st = "Booking:contact" -> "booking_contact_bad"
      [] st = "Booking:email" /\ TextIs(ev, T_SKIP) -> "booking_email_skip"
      [] st = "Booking:email" /\ TextIs(ev, T_BACK) -> "booking_email_back"
      [] st = "Booking:email" /\ IsText(ev) -> "booking_email"
      [] IsText(ev) /\ CmdOf[ev.val] = "document" -> "document_entry"
      [] st = "DocumentFlow:upload" /\ TextIs(ev, T_BACK)
            -> "document_upload_back"
      [] st = "DocumentFlow:upload" /\ ev.kind \in {"document", "photo"}
            -> "document_got_file"
      [] st = "DocumentFlow:upload" /\ IsText(ev) -> "document_comment"
      [] IsText(ev) /\ ~SlashOf[ev.val] -> "first_touch_fallback"
      [] OTHER -> Null

\* The callback-query handlers, in registration order.
SelectCallback(st, ev) ==
    LET d == ev.val
    IN  CASE st = "Quick:category" /\ d = CB_BACK -> "quick_cat_back"
          [] st = "Quick:category" /\ StartsWith(d, <<"quick", "cat">>)
                -> "quick_set_category"
          [] st = "Quick:urgency" /\ d = CB_BACK -> "quick_urg_back"
          [] st = "Quick:urgency" /\ StartsWith(d, <<"quick", "urg">>)
                -> "quick_urgency_set"
          [] st = "Quick:offer" /\ d = CB_BACK -> "quick_offer_back"
          [] st = "Quick:offer" /\ StartsWith(d, <<"offer">>) -> "quick_offer"
          [] st = "Booking:fmt" /\ d = CB_BACK -> "booking_fmt_back"
          [] st = "Booking:fmt" /\ StartsWith(d, <<"book", "fmt">>)
                -> "booking_set_fmt"
          [] st = "Booking:dur" /\ d = CB_BACK -> "booking_dur_back"
          [] st = "Booking:dur" /\ StartsWith(d, <<"book", "dur">>)
                -> "booking_set_dur"
          [] st = "DocumentFlow:type" /\ d = CB_BACK -> "document_type_back"
          [] st = "DocumentFlow:type" /\ StartsWith(d, <<"doc", "type">>)
                -> "document_set_type"
          [] st = "DocumentFlow:plan" /\ d = CB_BACK -> "document_plan_back"
          [] st = "DocumentFlow:plan" /\ StartsWith(d, <<"doc", "plan">>)
                -> "document_finish"
          [] OTHER -> Null

Select(st, ev) ==
    IF ev.kind = "callback" THEN SelectCallback(st, ev)
    ELSE SelectMessage(st, ev)

\* ------------------------------------------------------------------ state
VARIABLES
    fsm_state,   \* MemoryStorage: the session state of each user
    fsm_data,    \* MemoryStorage: the Draft of each user
    tasks,       \* updates in flight, in order of arrival
    leads,       \* table leads
    documents,   \* table documents
    log,         \* history: one entry per lead ever committed
    runs,        \* history: flow entries executed by each user
    entered,     \* history: latest outcome of each step in the current run
    overlaps,    \* updates delivered so far while another was in flight
    answer,      \* the last callback answer shown to a staff caller
    now,         \* the clock read by utcnow() and datetime.now(), in days
    filters,
        \* _FILTERS of app/admin.py: the stored dict of each staff user
    panel,       \* the panel message each staff user last had rendered
    environ,     \* os.environ["ADMIN_IDS"] after load_dotenv(), as characters
    sent,        \* the documents last sent to a staff chat (empty or one)
    left         \* history: the steps whose inline keyboard a user left
                 \* on a message by typing the command of a flow

vars ==
    <<fsm_state, fsm_data, tasks, leads, documents, log, runs, entered,
      overlaps, answer, now, filters, panel, environ, sent, left>>

EmptyData ==
    [category |-> Null, pdfs |-> <<>>, brief |-> Null, urgency |-> Null,
     duration |-> Null, name |-> Null, contact |-> Null, email |-> Null,
     consult_format |-> Null, doc_type |-> Null, doc_comment |-> Null,
     doc_file_ids |-> <<>>]

\* ADMIN_IDS=8,9 in .env: the setting of every specification but EnvSpec
ADMIN_IDS_SETTING == <<"8", ",", "9">>

\* int(x) of a run of digits
DigitValue(c) ==
    CASE c = "0" -> 0 [] c = "1" -> 1 [] c = "2" -> 2 [] c = "3" -> 3
      [] c = "4" -> 4 [] c = "5" -> 5 [] c = "6" -> 6 [] c = "7" -> 7
      [] c = "8" -> 8 [] c = "9" -> 9

RECURSIVE int(_)
int(x) ==
    IF x = <<>> THEN 0
    ELSE 10 * int(SubSeq(x, 1, Len(x) - 1)) + DigitValue(x[Len(x)])

\* re.findall(r"\d+", s): the maximal runs of digits of s
findall_digits(s) ==
    {SubSeq(s, i, j) : <<i, j>> \in
        {r \in (1..Len(s)) \X (1..Len(s)) :
            /\ r[1] <= r[2]
            /\ \A k \in r[1]..r[2] : s[k] \in Digits
            /\ r[1] = 1 \/ s[r[1] - 1] \notin Digits
            /\ r[2] = Len(s) \/ s[r[2] + 1] \notin Digits}}

\* app/admin.py: {int(x) for x in re.findall(...)} or {438150673}
FALLBACK_ADMIN == 438150673
ADMIN_IDS ==
    LET parsed == {int(x) : x \in findall_digits(environ)}
    IN  IF parsed = {} THEN {FALLBACK_ADMIN} ELSE parsed

\* app/handlers.py: {int(x) for x in re.findall(r"\d+", RAW_ADMIN_IDS)}
handlers_ADMIN_IDS == {int(x) : x \in findall_digits(environ)}

RemoveAt(s, i) == SubSeq(s, 1, i - 1) \o SubSeq(s, i + 1, Len(s))

Max(S) == CHOOSE x \in S : \A y \in S : y <= x

\* SQLite INTEGER PRIMARY KEY without AUTOINCREMENT: one more than the
\* largest id in the table
NextId(rows) == Max({r.id : r \in rows} \cup {0}) + 1

\* defaultdict(lambda: {"status": "any", "source": "any", "period": "30d"})
DEFAULT_FILTERS == [status |-> "any", source |-> "any", period |-> "30d"]

\* a panel message: the view it shows, the filters printed in its text (f,
\* empty or one dict), the ids of the leads of its list rows, the lead
\* printed on its card (empty or one row), and the scope and the page that
\* its buttons carry
NoPanel ==
    [view |-> "none", f |-> <<>>, items |-> <<>>, card |-> <<>>,
     scope |-> Null, page |-> 0]

Init ==
    /\ fsm_state = [u \in Users |-> NoState]
    /\ fsm_data = [u \in Users |-> EmptyData]
    /\ tasks = <<>>
    /\ leads = {}
    /\ documents = {}
    /\ log = <<>>
    /\ runs = [u \in Users |-> 0]
    /\ entered = [u \in Users |-> EmptyData]
    /\ overlaps = 0
    /\ answer = Null
    /\ now = 0
    /\ filters = [a \in Admins |-> <<>>]
    /\ panel = [a \in Admins |-> NoPanel]
    /\ environ = ADMIN_IDS_SETTING
    /\ sent = <<>>
    /\ left = {}

\* ------------------------------------------------------------- FSMContext
set_state(u, s) == fsm_state' = [fsm_state EXCEPT ![u] = s]
set_data(u, d) == fsm_data' = [fsm_data EXCEPT ![u] = d]
clear(u) == set_state(u, NoState) /\ set_data(u, EmptyData)

\* history only
Note(u, e) == entered' = [entered EXCEPT ![u] = e]

\* ---------------------------------------------------------------- dispatch
RoutingHandlers ==
    {"quick_brief_ok", "quick_name", "quick_contact_bad", "quick_email",
     "booking_name", "booking_contact_bad", "booking_email"}

\* norm(message.text or "") in BTN_SET
Routed(h, ev) ==
    h \in RoutingHandlers /\ IsText(ev) /\ NormOf[ev.val] \in BTN_SET

\* the update will execute a flow entry
WillEnter(h, ev) ==
    \/ h \in {"quick_entry", "booking_entry", "document_entry"}
    \/ Routed(h, ev) /\ NormOf[ev.val] \in {N_QUICK, N_BOOK}

\* the update will create a lead
WillFinalize(h, ev) ==
    \/ h \in {"quick_email_skip", "booking_email_skip", "document_finish"}
    \/ /\ h \in {"quick_email", "booking_email"}
       /\ ~Routed(h, ev)
       /\ ~ValidEmailOf[ev.val] => StripOf[ev.val] = T_DASH

\* the handlers that store whatever text they are given
FreeTextHandlers ==
    {"quick_brief_ok", "quick_name", "booking_name", "document_comment"}

\* bound on the inputs: the free text a user types at such a step
FreeTexts == {T_NAME, T_TWO_LINES}

\* bound on the inputs: the updates that arrive while another is in flight
OverlapEvents ==
    {[kind |-> "text", val |-> T_SKIP, file |-> Null],
     [kind |-> "text", val |-> T_MENU, file |-> Null],
     [kind |-> "callback", val |-> <<"doc", "plan", "express">>,
      file |-> Null]}

\* the handlers whose body reads the update (its text, data or file)
ReadsUpdate ==
    RoutingHandlers \cup
    {"quick_set_category", "quick_brief_pdf", "quick_urgency_set",
     "quick_offer", "quick_contact_shared", "quick_contact_ok",
     "booking_set_fmt", "booking_set_dur", "booking_contact_shared",
     "booking_contact_ok", "document_set_type", "document_got_file",
     "document_comment"}

NoEvent == [kind |-> Null, val |-> Null, file |-> Null]

\* positions in the list of updates in flight
TaskIds == 1..(MaxOverlap + 1)

Task(u, h, ev) ==
    [user |-> u, handler |-> h,
     ev |-> IF h \in ReadsUpdate THEN ev ELSE NoEvent,
     at |-> fsm_state[u], pc |-> "mw", inst |-> runs[u],
     snap |-> EmptyData, failed |-> {}]

\* An update of user u arrives: the FSM middleware reads the state, the
\* router selects the handler, DBUserMiddleware starts awaiting the database.
Arrive(u, ev, max_runs, max_leads) ==
    LET h == Select(fsm_state[u], ev)
        InFlight == DOMAIN tasks
        entering ==
            {i \in InFlight : /\ tasks[i].user = u
                              /\ WillEnter(tasks[i].handler, tasks[i].ev)}
        finalizing ==
            {i \in InFlight : WillFinalize(tasks[i].handler, tasks[i].ev)}
        uploading ==
            {i \in InFlight : /\ tasks[i].user = u
                              /\ tasks[i].handler = "document_got_file"}
    IN  /\ \/ tasks = <<>>
           \/ /\ overlaps < MaxOverlap
              /\ ev \in OverlapEvents
              /\ Cardinality(finalizing) > 0
        /\ h # Null
        /\ h \in FreeTextHandlers /\ ~Routed(h, ev) => ev.val \in FreeTexts
        /\ h = "document_got_file" =>
              Len(fsm_data[u].doc_file_ids) + Cardinality(uploading) < MaxFiles
        /\ WillEnter(h, ev) => runs[u] + Cardinality(entering) < max_runs
        /\ WillFinalize(h, ev) => Len(log) + Cardinality(finalizing) < max_leads
        /\ tasks' = Append(tasks, Task(u, h, ev))
        /\ overlaps' = IF tasks = <<>> THEN overlaps ELSE overlaps + 1
        /\ UNCHANGED <<fsm_state, fsm_data, leads, documents, log, runs,
                       entered, answer, now, environ, left, sent, filters,
                       panel>>

Deliver(u, ev) == Arrive(u, ev, MaxRuns, MaxLeads)

\* the handler h of task i starts its body
Pc(i, pc) == i \in DOMAIN tasks /\ tasks[i].pc = pc
At(i, h) == Pc(i, "mw") /\ tasks[i].handler = h
Finish(i) == tasks' = RemoveAt(tasks, i)
Goto(i, pc) == tasks' = [tasks EXCEPT ![i].pc = pc]

\* a handler that only replies
Reply(i) ==
    /\ Finish(i)
    /\ UNCHANGED <<fsm_state, fsm_data, leads, documents, log, runs, entered,
                   overlaps, answer, now, environ, left, sent, filters, panel>>

\* a handler that only moves the session: set_state(s), then the reply
Move(i, s) ==
    /\ set_state(tasks[i].user, s)
    /\ Finish(i)
    /\ UNCHANGED <<fsm_data, leads, documents, log, runs, entered, overlaps,
                   answer, now, environ, left, sent, filters, panel>>

\* state.clear(), then the reply
Abort(i) ==
    /\ clear(tasks[i].user)
    /\ Note(tasks[i].user, EmptyData)
    /\ Finish(i)
    /\ UNCHANGED <<leads, documents, log, runs, overlaps, answer, now,
                   environ, left, sent,
                   filters, panel>>

\* update_data(...), set_state(s), then the reply; e is the history
Advance(i, d, s, e) ==
    /\ set_data(tasks[i].user, d)
    /\ set_state(tasks[i].user, s)
    /\ Note(tasks[i].user, e)
    /\ Finish(i)
    /\ UNCHANGED <<leads, documents, log, runs, overlaps, answer, now,
                   environ, left, sent,
                   filters, panel>>

\* a flow entry: (the reply that hides the keyboard,) set_state(first step)
Enter(i, s) ==
    LET u == tasks[i].user
    IN  /\ set_state(u, s)
        /\ runs' = [runs EXCEPT ![u] = @ + 1]
        /\ Note(u, EmptyData)
        /\ Finish(i)
        /\ UNCHANGED <<fsm_data, leads, documents, log, overlaps, answer,
                       now, environ, left, sent,
                       filters, panel>>

\* route_main_button returned True: state.clear(), then the handler of the
\* button; quick_entry and booking_entry await a reply before set_state
route_main_button(i) ==
    LET t == NormOf[tasks[i].ev.val]
    IN  /\ clear(tasks[i].user)
        /\ Note(tasks[i].user, EmptyData)
        /\ IF t \in {N_QUICK, N_BOOK} THEN Goto(i, "entry") ELSE Finish(i)
        /\ UNCHANGED <<leads, documents, log, runs, overlaps, answer, now,
                       environ, left, sent,
                       filters, panel>>

\* ------------------------------------------------------------ start / menu
blog_menu(i) == At(i, "blog_menu") /\ Reply(i)
cmd_start(i) == At(i, "cmd_start") /\ Abort(i)
start_button(i) == At(i, "start_button") /\ Abort(i)
back_to_menu(i) == At(i, "back_to_menu") /\ Abort(i)
about(i) == At(i, "about") /\ Abort(i)
first_touch_fallback(i) == At(i, "first_touch_fallback") /\ Reply(i)

\* ------------------------------------------------------------- finalize
\* create_lead: the row a flow inserts (slot_iso is never set, consent is
\* always True; both are left out).  status and created_at take the column
\* defaults of Lead: "new" and utcnow()
create_lead_closed(id, u, data) ==
    [id |-> id, user |-> u, status |-> "closed", created_at |-> now,
     source |-> data.source, category |-> data.category,
     brief |-> data.brief, urgency |-> data.urgency,
     consult_format |-> data.consult_format, duration |-> data.duration,
     name |-> data.name, contact |-> data.contact, email |-> data.email]

create_lead_backdated(id, u, data) ==
    [id |-> id, user |-> u, status |-> "new", created_at |-> MaxNow - now,
     source |-> data.source, category |-> data.category,
     brief |-> data.brief, urgency |-> data.urgency,
     consult_format |-> data.consult_format, duration |-> data.duration,
     name |-> data.name, contact |-> data.contact, email |-> data.email]

create_lead(id, u, data) ==
    [id |-> id, user |-> u, status |-> "new", created_at |-> now,
     source |-> data.source, category |-> data.category,
     brief |-> data.brief, urgency |-> data.urgency,
     consult_format |-> data.consult_format, duration |-> data.duration,
     name |-> data.name, contact |-> data.contact, email |-> data.email]

NoFields ==
    [source |-> Null, category |-> Null, brief |-> Null, urgency |-> Null,
     consult_format |-> Null, duration |-> Null, name |-> Null,
     contact |-> Null, email |-> Null]

\* Document(lead=lead, file_id=fid, ...) for each fid of files
NewDocuments(lead_id, files) ==
    LET first == NextId(documents)
    IN  {[id |-> first + k - 1, lead_id |-> lead_id, file_id |-> files[k]] :
            k \in 1..Len(files)}

\* one transaction: upsert_user (an INSERT .. ON CONFLICT DO UPDATE, which
\* takes the write lock of the SQLite file), create_lead (flush), the
\* documents, commit.  The write lock makes the transactions of two tasks
\* follow one another, so the transaction is one step
Commit(i, fields, files) ==
    LET t == tasks[i]
        lead == create_lead(NextId(leads), t.user, fields)
    IN  /\ Pc(i, "db")
        /\ leads' = leads \cup {lead}
        /\ documents' = documents \cup NewDocuments(lead.id, files)
        /\ log' = Append(log, [user |-> t.user, inst |-> t.inst, at |-> t.at,
                               id |-> lead.id, files |-> Len(files)])
        /\ Goto(i, "mirror")
        /\ UNCHANGED <<fsm_state, fsm_data, runs, entered, overlaps, answer,
                       now, environ, left, sent, filters, panel>>

\* the first segment of a finalize: the Draft is read, the session opens.
\* snap holds the local variables data and email (as data's email field)
ReadDraft(i, d, email) ==
    /\ tasks' = [tasks EXCEPT ![i].pc = "db",
                              ![i].snap = [d EXCEPT !.email = email]]
    /\ UNCHANGED <<fsm_state, leads, documents, log, runs, entered, overlaps,
                   answer, now, environ, left, sent, filters, panel>>

QuickFinal == {"quick_email_skip", "quick_email"}
BookingFinal == {"booking_email_skip", "booking_email"}
DocumentFinal == {"document_finish"}

\* _finalize_quick, from update_data(email=email) to get_data()
finalize_quick_read(i, email) ==
    LET d == [fsm_data[tasks[i].user] EXCEPT !.email = email]
    IN  set_data(tasks[i].user, d) /\ ReadDraft(i, d, email)

\* _finalize_quick, the database session
finalize_quick(i) ==
    LET d == tasks[i].snap
    IN  /\ Pc(i, "db")
        /\ tasks[i].handler \in QuickFinal
        /\ Commit(i,
                  [NoFields EXCEPT !.source = "quick",
                      !.category = d.category, !.brief = d.brief,
                      !.urgency = d.urgency, !.duration = d.duration,
                      !.name = d.name, !.contact = d.contact,
                      !.email = d.email],
                  SubSeq(d.pdfs, 1, IF Len(d.pdfs) < MAX_PDFS
                                    THEN Len(d.pdfs) ELSE MAX_PDFS))

\* _finalize_booking, get_data()
finalize_booking_read(i, email) ==
    /\ ReadDraft(i, fsm_data[tasks[i].user], email)
    /\ UNCHANGED fsm_data

\* _finalize_booking, the database session
finalize_booking(i) ==
    LET d == tasks[i].snap
    IN  /\ Pc(i, "db")
        /\ tasks[i].handler \in BookingFinal
        /\ Commit(i,
                  [NoFields EXCEPT !.source = "booking",
                      !.consult_format = d.consult_format,
                      !.duration = d.duration, !.name = d.name,
                      !.contact = d.contact, !.email = d.email],
                  <<>>)

\* document_finish, the database session
document_finish_commit(i) ==
    LET d == tasks[i].snap
    IN  /\ Pc(i, "db")
        /\ tasks[i].handler \in DocumentFinal
        /\ Commit(i,
                  [NoFields EXCEPT !.source = "document",
                      !.category = d.doc_type, !.brief = d.doc_comment],
                  <<>>)

\* the outcome of an external call: it succeeds or it raises
Outcomes == {"ok", "error"}

\* the task goes on at pc; a call that raised was caught and logged only
Caught(i, call, outcome, pc) ==
    tasks' = [tasks EXCEPT ![i].pc = pc,
                           ![i].failed = IF outcome = "ok" THEN @
                                         ELSE @ \cup {call}]

append_lead_safe_raises(i) ==
    /\ Pc(i, "mirror")
    /\ \E outcome \in Outcomes :
         IF outcome = "ok" THEN Caught(i, "mirror", outcome, "notify")
         ELSE Finish(i)
    /\ UNCHANGED <<fsm_state, fsm_data, leads, documents, log, runs, entered,
                   overlaps, answer, now, environ, left, sent, filters, panel>>

\* await asyncio.to_thread(append_lead_safe, lead): every exception is
\* caught and logged inside
append_lead_safe(i) ==
    /\ Pc(i, "mirror")
    /\ \E outcome \in Outcomes : Caught(i, "mirror", outcome, "notify")
    /\ UNCHANGED <<fsm_state, fsm_data, leads, documents, log, runs, entered,
                   overlaps, answer, now, environ, left, sent, filters, panel>>

\* await notify_admins_with_actions(bot, lead) and the forwarded PDFs: a
\* failed send is caught and logged
notify_admins_with_actions(i) ==
    /\ Pc(i, "notify")
    /\ \E outcome \in Outcomes : Caught(i, "notify", outcome, "reply")
    /\ UNCHANGED <<fsm_state, fsm_data, leads, documents, log, runs, entered,
                   overlaps, answer, now, environ, left, sent, filters, panel>>

finalize_reply_clears_all(i) ==
    /\ Pc(i, "reply")
    /\ fsm_state' = [u \in DOMAIN fsm_state |-> NoState]
    /\ fsm_data' = [u \in DOMAIN fsm_data |-> EmptyData]
    /\ Note(tasks[i].user, EmptyData)
    /\ Finish(i)
    /\ UNCHANGED <<leads, documents, log, runs, overlaps, answer, now,
                   environ, left, sent, filters, panel>>

\* the confirmation reply, then state.clear()
finalize_reply(i) ==
    /\ Pc(i, "reply")
    /\ clear(tasks[i].user)
    /\ Note(tasks[i].user, EmptyData)
    /\ Finish(i)
    /\ UNCHANGED <<leads, documents, log, runs, overlaps, answer, now,
                   environ, left, sent,
                   filters, panel>>

\* ------------------------------------------------------- 1) Quick question
Data(i) == fsm_data[tasks[i].user]
Seen(i) == entered[tasks[i].user]
Text(i) == StripOf[tasks[i].ev.val]

quick_entry(i) ==
    /\ \/ At(i, "quick_entry")
       \/ Pc(i, "entry") /\ NormOf[tasks[i].ev.val] = N_QUICK
    /\ Enter(i, "Quick:category")

quick_cat_back(i) == At(i, "quick_cat_back") /\ Abort(i)

quick_set_category(i) ==
    LET c == LastPart(tasks[i].ev.val)
    IN  /\ At(i, "quick_set_category")
        /\ Advance(i, [Data(i) EXCEPT !.category = c, !.pdfs = <<>>],
                   "Quick:brief", [Seen(i) EXCEPT !.category = c])

quick_brief_pdf_uncapped(i) ==
    LET pdfs == Data(i).pdfs
        ev == tasks[i].ev
    IN  /\ At(i, "quick_brief_pdf")
        /\ IF ev.val \notin ALLOWED_DOC_MIMES
           THEN Reply(i)
           ELSE /\ set_data(tasks[i].user,
                            [Data(i) EXCEPT !.pdfs = Append(pdfs, ev.file)])
                /\ Finish(i)
                /\ UNCHANGED <<fsm_state, leads, documents, log, runs,
                               entered, overlaps, answer, now, environ, left,
                               sent,
                               filters,
                               panel>>

quick_brief_pdf(i) ==
    LET pdfs == Data(i).pdfs
        ev == tasks[i].ev
    IN  /\ At(i, "quick_brief_pdf")
        /\ IF ev.val \notin ALLOWED_DOC_MIMES \/ Len(pdfs) >= MAX_PDFS
           THEN Reply(i)
           ELSE /\ set_data(tasks[i].user,
                            [Data(i) EXCEPT !.pdfs = Append(pdfs, ev.file)])
                /\ Finish(i)
                /\ UNCHANGED <<fsm_state, leads, documents, log, runs,
                               entered, overlaps, answer, now, environ, left,
                               sent,
                               filters,
                               panel>>

quick_brief_back(i) == At(i, "quick_brief_back") /\ Move(i, "Quick:category")

quick_brief_ok(i) ==
    /\ At(i, "quick_brief_ok")
    /\ IF Routed("quick_brief_ok", tasks[i].ev) THEN route_main_button(i)
       ELSE Advance(i, [Data(i) EXCEPT !.brief = Text(i)], "Quick:urgency",
                    [Seen(i) EXCEPT !.brief = Text(i)])

quick_brief_long(i) == At(i, "quick_brief_long") /\ Reply(i)

quick_urg_back(i) == At(i, "quick_urg_back") /\ Move(i, "Quick:brief")

quick_urgency_set(i) ==
    LET g == LastPart(tasks[i].ev.val)
    IN  /\ At(i, "quick_urgency_set")
        /\ Advance(i, [Data(i) EXCEPT !.urgency = g], "Quick:offer",
                   [Seen(i) EXCEPT !.urgency = g])

quick_offer_back(i) == At(i, "quick_offer_back") /\ Move(i, "Quick:urgency")

quick_offer(i) ==
    LET choice == LastPart(tasks[i].ev.val)
        taken == choice \in {"30", "60"}
    IN  /\ At(i, "quick_offer")
        /\ Advance(i,
                   IF taken THEN [Data(i) EXCEPT !.duration = choice]
                   ELSE Data(i),
                   "Quick:name",
                   [Seen(i) EXCEPT !.duration = IF taken THEN choice ELSE Null])

quick_name_back_skips(i) ==
    At(i, "quick_name_back") /\ Move(i, "Quick:urgency")

quick_name_back(i) == At(i, "quick_name_back") /\ Move(i, "Quick:offer")

quick_name(i) ==
    /\ At(i, "quick_name")
    /\ IF Routed("quick_name", tasks[i].ev) THEN route_main_button(i)
       ELSE Advance(i, [Data(i) EXCEPT !.name = Text(i)], "Quick:contact",
                    [Seen(i) EXCEPT !.name = Text(i)])

quick_contact_shared(i) ==
    LET phone == tasks[i].ev.val
    IN  /\ At(i, "quick_contact_shared")
        /\ Advance(i, [Data(i) EXCEPT !.contact = phone], "Quick:email",
                   [Seen(i) EXCEPT !.contact = phone])

quick_contact_back(i) == At(i, "quick_contact_back") /\ Move(i, "Quick:name")

quick_contact_ok(i) ==
    /\ At(i, "quick_contact_ok")
    /\ Advance(i, [Data(i) EXCEPT !.contact = Text(i)], "Quick:email",
               [Seen(i) EXCEPT !.contact = Text(i)])

quick_contact_bad_accepts(i) ==
    /\ At(i, "quick_contact_bad")
    /\ IF Routed("quick_contact_bad", tasks[i].ev) THEN route_main_button(i)
       ELSE Advance(i, [Data(i) EXCEPT !.contact = tasks[i].ev.val],
                    "Quick:email", Seen(i))

quick_contact_bad(i) ==
    /\ At(i, "quick_contact_bad")
    /\ IF Routed("quick_contact_bad", tasks[i].ev) THEN route_main_button(i)
       ELSE Reply(i)

quick_email_back(i) == At(i, "quick_email_back") /\ Move(i, "Quick:contact")

quick_email_skip(i) ==
    At(i, "quick_email_skip") /\ finalize_quick_read(i, Null)

\* the email a typed text finalizes with, or "invalid"
TypedEmail(t) ==
    LET email == StripOf[t]
    IN  IF email # T_DASH /\ Chars(email) # <<>> /\ ~ValidEmailOf[email]
        THEN "invalid"
        ELSE IF email \in {T_DASH, T_MDASH} THEN Null ELSE email

quick_email(i) ==
    LET email == TypedEmail(tasks[i].ev.val)
    IN  /\ At(i, "quick_email")
        /\ IF Routed("quick_email", tasks[i].ev) THEN route_main_button(i)
           ELSE IF email = "invalid" THEN Reply(i)
           ELSE finalize_quick_read(i, email)

\* --------------------------------------------------------------- 2) Booking
booking_entry(i) ==
    /\ \/ At(i, "booking_entry")
       \/ Pc(i, "entry") /\ NormOf[tasks[i].ev.val] = N_BOOK
    /\ Enter(i, "Booking:fmt")

booking_fmt_back(i) == At(i, "booking_fmt_back") /\ Abort(i)

booking_set_fmt(i) ==
    LET f == LastPart(tasks[i].ev.val)
    IN  /\ At(i, "booking_set_fmt")
        /\ Advance(i, [Data(i) EXCEPT !.consult_format = f], "Booking:dur",
                   [Seen(i) EXCEPT !.consult_format = f])

booking_dur_back(i) == At(i, "booking_dur_back") /\ Move(i, "Booking:fmt")

booking_set_dur(i) ==
    LET d == LastPart(tasks[i].ev.val)
    IN  /\ At(i, "booking_set_dur")
        /\ Advance(i, [Data(i) EXCEPT !.duration = d], "Booking:name",
                   [Seen(i) EXCEPT !.duration = d])

booking_name_back(i) == At(i, "booking_name_back") /\ Move(i, "Booking:dur")

booking_name(i) ==
    /\ At(i, "booking_name")
    /\ IF Routed("booking_name", tasks[i].ev) THEN route_main_button(i)
       ELSE Advance(i, [Data(i) EXCEPT !.name = Text(i)], "Booking:contact",
                    [Seen(i) EXCEPT !.name = Text(i)])

booking_contact_shared(i) ==
    LET phone == tasks[i].ev.val
    IN  /\ At(i, "booking_contact_shared")
        /\ Advance(i, [Data(i) EXCEPT !.contact = phone], "Booking:email",
                   [Seen(i) EXCEPT !.contact = phone])

booking_contact_back(i) ==
    At(i, "booking_contact_back") /\ Move(i, "Booking:name")

booking_contact_ok(i) ==
    /\ At(i, "booking_contact_ok")
    /\ Advance(i, [Data(i) EXCEPT !.contact = Text(i)], "Booking:email",
               [Seen(i) EXCEPT !.contact = Text(i)])

booking_contact_bad(i) ==
    /\ At(i, "booking_contact_bad")
    /\ IF Routed("booking_contact_bad", tasks[i].ev) THEN route_main_button(i)
       ELSE Reply(i)

booking_email_skip(i) ==
    At(i, "booking_email_skip") /\ finalize_booking_read(i, Null)

booking_email_back(i) ==
    At(i, "booking_email_back") /\ Move(i, "Booking:contact")

booking_email(i) ==
    LET email == TypedEmail(tasks[i].ev.val)
    IN  /\ At(i, "booking_email")
        /\ IF Routed("booking_email", tasks[i].ev) THEN route_main_button(i)
           ELSE IF email = "invalid" THEN Reply(i)
           ELSE finalize_booking_read(i, email)

\* -------------------------------------------------------- 3) Document check
document_entry(i) == At(i, "document_entry") /\ Enter(i, "DocumentFlow:type")

document_type_back(i) == At(i, "document_type_back") /\ Abort(i)

document_set_type(i) ==
    LET ty == LastPart(tasks[i].ev.val)
    IN  /\ At(i, "document_set_type")
        /\ Advance(i, [Data(i) EXCEPT !.doc_type = ty], "DocumentFlow:upload",
                   [Seen(i) EXCEPT !.doc_type = ty])

document_upload_back(i) ==
    At(i, "document_upload_back") /\ Move(i, "DocumentFlow:type")

document_got_file(i) ==
    LET files == Data(i).doc_file_ids
    IN  /\ At(i, "document_got_file")
        /\ set_data(tasks[i].user,
              [Data(i) EXCEPT !.doc_file_ids = Append(files, tasks[i].ev.file)])
        /\ Finish(i)
        /\ UNCHANGED <<fsm_state, leads, documents, log, runs, entered,
                       overlaps, answer, now, environ, left, sent, filters,
                       panel>>

document_comment(i) ==
    /\ At(i, "document_comment")
    /\ Advance(i, [Data(i) EXCEPT !.doc_comment = Text(i)],
               "DocumentFlow:plan", [Seen(i) EXCEPT !.doc_comment = Text(i)])

document_plan_back(i) ==
    At(i, "document_plan_back") /\ Move(i, "DocumentFlow:upload")

document_finish(i) ==
    /\ At(i, "document_finish")
    /\ ReadDraft(i, Data(i), Null)
    /\ UNCHANGED fsm_data

\* ------------------------------------------------------------------ clock
\* The clock counts days.  It never runs backwards; d days pass
Tick(d) ==
    /\ now + d <= MaxNow
    /\ now' = now + d
    /\ UNCHANGED <<fsm_state, fsm_data, tasks, leads, documents, log, runs,
                   entered, overlaps, answer, filters, panel, environ, left,
                   sent>>

\* ------------------------------------------------------------------ staff
is_admin(a) == a \in ADMIN_IDS

StatusButtons == {"in_review", "scheduled", "closed"}
LeadIds == 1..(MaxLeads + 1)
Scopes == {"new", "all"}

\* the callback answers of app/admin.py, in English: "Немає доступу", "Лід
\* не знайдено", "Статус оновлено", "Видалено", "Застосовано", "Скинуто";
\* call.answer() without a text shows nothing
NO_ACCESS == "no access"
NOT_FOUND == "lead not found"
STATUS_UPDATED == "status updated"
DELETED == "deleted"
APPLIED == "applied"
RESET == "reset"
\* "Готово" of the export; "Доступ заборонено." of /admin; the answers of
\* app/handlers.py: "Недоступно", "Файлів немає", "Надіслано.", "Статус
\* оновлено" with a check mark
DONE == "done"
ACCESS_DENIED == "access denied"
UNAVAILABLE == "unavailable"
NO_FILES == "no files"
FILES_SENT == "sent"
STATUS_UPDATED_OK == "status updated [ok]"
\* the handler raised: the callback gets no answer, the error is logged
RAISED == "unhandled exception"

\* ---------------------------------------------------------------- filters
\* the keys of STATUS_LABELS, SOURCE_LABELS and PERIOD_LABELS
STATUS_LABELS == {"any", "new", "in_review", "scheduled", "closed"}
SOURCE_LABELS == {"any", "quick", "booking", "document"}
PERIOD_LABELS == {"7d", "30d", "90d", "all"}

\* F[uid] is empty while uid is no key of _FILTERS and holds the stored dict
\* otherwise.  _FILTERS[uid] of a defaultdict: a missing key is stored with
\* the default value by the lookup itself
Lookup(F, uid) ==
    [F EXCEPT ![uid] = IF @ = <<>> THEN <<DEFAULT_FILTERS>> ELSE @]

\* dict(_FILTERS[uid]): a copy of the stored dict
get_filters(F, uid) == Lookup(F, uid)[uid][1]

set_filter_resets(F, uid, key, value) ==
    [F EXCEPT ![uid] = <<[DEFAULT_FILTERS EXCEPT ![key] = value]>>]

set_filter_narrows(F, uid, key, value) ==
    [F EXCEPT ![uid] =
        <<[[get_filters(F, uid) EXCEPT ![key] = value]
              EXCEPT !.source = IF key = "status" THEN "any" ELSE @]>>]

\* f = _FILTERS[uid]; f[key] = value; _FILTERS[uid] = f
set_filter(F, uid, key, value) ==
    [F EXCEPT ![uid] = <<[get_filters(F, uid) EXCEPT ![key] = value]>>]

clear_filters_keeps_window(F, uid) ==
    [F EXCEPT ![uid] =
        IF @ = <<>> THEN <<>>
        ELSE <<[DEFAULT_FILTERS EXCEPT !.period = F[uid][1].period]>>]

\* if uid in _FILTERS: del _FILTERS[uid]
clear_filters(F, uid) == [F EXCEPT ![uid] = <<>>]

period_to_days(period) ==
    CASE period = "7d" -> 7 [] period = "30d" -> 30 [] period = "90d" -> 90
      [] OTHER -> -1

\* -------------------------------------------------------------- keyboards
kb_admin_menu ==
    {<<"admin", "list", "new", 0>>, <<"admin", "list", "all", 0>>,
     <<"admin", "filters">>, <<"admin", "export">>}

kb_filters ==
    {<<"admin", "filters", "set", "status", v>> : v \in STATUS_LABELS}
    \cup {<<"admin", "filters", "set", "source", v>> : v \in SOURCE_LABELS}
    \cup {<<"admin", "filters", "set", "period", v>> : v \in PERIOD_LABELS}
    \cup {<<"admin", "list", "all", 0>>, <<"admin", "filters", "clear">>,
          <<"admin", "menu">>}

PAGE_SIZE == 10

kb_list_next_once(items, page, scope) ==
    {<<"admin", "lead", items[k], scope, page>> : k \in DOMAIN items}
    \cup (IF page > 0 THEN {<<"admin", "list", scope, page - 1>>} ELSE {})
    \cup {<<"admin", "filters">>, <<"admin", "menu">>}
    \cup (IF Len(items) = PAGE_SIZE /\ page = 0
          THEN {<<"admin", "list", scope, page + 1>>} ELSE {})

kb_list_offers_previous(items, page, scope) ==
    {<<"admin", "lead", items[k], scope, page>> : k \in DOMAIN items}
    \cup {<<"admin", "list", scope, page - 1>>}
    \cup {<<"admin", "filters">>, <<"admin", "menu">>}
    \cup (IF Len(items) = PAGE_SIZE
          THEN {<<"admin", "list", scope, page + 1>>} ELSE {})

\* items is the sequence of the ids of the leads of the page
kb_list(items, page, scope) ==
    {<<"admin", "lead", items[k], scope, page>> : k \in DOMAIN items}
    \cup (IF page > 0 THEN {<<"admin", "list", scope, page - 1>>} ELSE {})
    \cup {<<"admin", "filters">>, <<"admin", "menu">>}
    \cup (IF Len(items) = PAGE_SIZE
          THEN {<<"admin", "list", scope, page + 1>>} ELSE {})

kb_lead_actions_offers_new(lead_id, scope, page) ==
    {<<"admin", "status", lead_id, st, scope, page>> :
        st \in StatusButtons \cup {"new"}}
    \cup {<<"admin", "delete", lead_id, scope, page>>,
          <<"admin", "list", scope, page>>}

kb_lead_actions(lead_id, scope, page) ==
    {<<"admin", "status", lead_id, st, scope, page>> : st \in StatusButtons}
    \cup {<<"admin", "delete", lead_id, scope, page>>,
          <<"admin", "list", scope, page>>}

\* ------------------------------------------------------------------ lists
Where_unscoped(rows, scope, f) ==
    {l \in rows :
        /\ f.status # "any" => l.status = f.status
        /\ f.source # "any" => l.source = f.source
        /\ period_to_days(f.period) # -1 =>
              l.created_at >= now - period_to_days(f.period)}

\* the WHERE clauses of fetch_page over the table rows, at the time `now`
\* (-1 stands for the None of period_to_days)
Where(rows, scope, f) ==
    {l \in rows :
        /\ IF scope = "new" THEN l.status = "new"
           ELSE f.status # "any" => l.status = f.status
        /\ f.source # "any" => l.source = f.source
        /\ period_to_days(f.period) # -1 =>
              l.created_at >= now - period_to_days(f.period)}

\* ORDER BY created_at DESC: the rows with equal created_at come in an order
\* that SQL leaves open
Newest(S) == {l \in S : \A m \in S : m.created_at <= l.created_at}

RECURSIVE OrderByCreatedDesc(_)
OrderByCreatedDesc(S) ==
    IF S = {} THEN {<<>>}
    ELSE UNION {{<<l>> \o r : r \in OrderByCreatedDesc(S \ {l})} :
                  l \in Newest(S)}

OffsetLimit_unscaled(s, page) ==
    SubSeq(s, page + 1,
           IF Len(s) < page + PAGE_SIZE THEN Len(s) ELSE page + PAGE_SIZE)

\* OFFSET page * 10 LIMIT 10
OffsetLimit(s, page) ==
    SubSeq(s, page * PAGE_SIZE + 1,
           IF Len(s) < (page + 1) * PAGE_SIZE THEN Len(s)
           ELSE (page + 1) * PAGE_SIZE)

\* the pages the query may return from the table rows for the filters f
Query(rows, scope, page, f) ==
    {OffsetLimit(s, page) : s \in OrderByCreatedDesc(Where(rows, scope, f))}

fetch_page(scope, page, uid) ==
    Query(leads, scope, page, get_filters(filters, uid))

\* select(Lead).where(Lead.id == id): scalar_one_or_none()
fetch_lead(id) == {l \in leads : l.id = id}

IdsOf(s) == [k \in DOMAIN s |-> s[k].id]

\* ----------------------------------------------------------------- panels
\* message.edit_text(text, reply_markup=kb) on the panel message of a
Render(a, p) == panel' = [panel EXCEPT ![a] = p]

MenuPanel == [NoPanel EXCEPT !.view = "menu"]
FiltersPanel(f) == [NoPanel EXCEPT !.view = "filters", !.f = <<f>>]
ListPanel(f, items, scope, page) ==
    [NoPanel EXCEPT !.view = "list", !.f = <<f>>, !.items = IdsOf(items),
                    !.scope = scope, !.page = page]
\* render_lead(lead) and kb_lead_actions(lead.id, scope, page)
CardPanel(lead, scope, page) ==
    [NoPanel EXCEPT !.view = "card", !.card = <<lead>>, !.scope = scope,
                    !.page = page]

\* the inline keyboard under a panel message
Keyboard(p) ==
    CASE p.view = "menu" -> kb_admin_menu
      [] p.view = "filters" -> kb_filters
      [] p.view = "list" -> kb_list(p.items, p.page, p.scope)
      [] p.view = "card" -> kb_lead_actions(p.card[1].id, p.scope, p.page)
      [] OTHER -> {}

Denied ==
    /\ answer' = NO_ACCESS
    /\ UNCHANGED <<fsm_state, fsm_data, tasks, leads, documents, log, runs,
                   entered, overlaps, now, environ, left, sent, filters, panel>>

\* /admin: a new panel message with the menu, or the refusal
admin_entry(a) ==
    IF ~is_admin(a)
    THEN /\ answer' = ACCESS_DENIED
         /\ UNCHANGED <<fsm_state, fsm_data, tasks, leads, documents, log,
                        runs, entered, overlaps, now, environ, left, sent,
                        filters,
                        panel>>
    ELSE /\ Render(a, MenuPanel)
         /\ UNCHANGED <<fsm_state, fsm_data, tasks, leads, documents, log,
                        runs, entered, overlaps, answer, now, environ, left,
                        sent,
                        filters>>

\* admin:menu
admin_menu(a) ==
    IF ~is_admin(a) THEN Denied
    ELSE /\ Render(a, MenuPanel)
         /\ answer' = Null
         /\ UNCHANGED <<fsm_state, fsm_data, tasks, leads, documents, log,
                        runs, entered, overlaps, now, environ, left, sent,
                        filters>>

\* admin:filters
admin_filters(a) ==
    IF ~is_admin(a) THEN Denied
    ELSE /\ filters' = Lookup(filters, a)
         /\ Render(a, FiltersPanel(get_filters(filters, a)))
         /\ answer' = Null
         /\ UNCHANGED <<fsm_state, fsm_data, tasks, leads, documents, log,
                        runs, entered, overlaps, now, environ, left, sent>>

\* admin:filters:set:{key}:{value}
admin_filters_set(a, key, value) ==
    IF ~is_admin(a) THEN Denied
    ELSE /\ filters' = set_filter(filters, a, key, value)
         /\ Render(a, FiltersPanel(get_filters(filters', a)))
         /\ answer' = APPLIED
         /\ UNCHANGED <<fsm_state, fsm_data, tasks, leads, documents, log,
                        runs, entered, overlaps, now, environ, left, sent>>

\* admin:filters:clear: the text printed after the clear is a lookup, which
\* stores the default again
admin_filters_clear(a) ==
    IF ~is_admin(a) THEN Denied
    ELSE /\ filters' = Lookup(clear_filters(filters, a), a)
         /\ Render(a, FiltersPanel(get_filters(clear_filters(filters, a), a)))
         /\ answer' = RESET
         /\ UNCHANGED <<fsm_state, fsm_data, tasks, leads, documents, log,
                        runs, entered, overlaps, now, environ, left, sent>>

\* admin:list:{scope}:{page}
admin_list(a, scope, page) ==
    IF ~is_admin(a) THEN Denied
    ELSE /\ filters' = Lookup(filters, a)
         /\ \E items \in fetch_page(scope, page, a) :
              Render(a, ListPanel(get_filters(filters, a), items, scope,
                                  page))
         /\ answer' = Null
         /\ UNCHANGED <<fsm_state, fsm_data, tasks, leads, documents, log,
                        runs, entered, overlaps, now, environ, left, sent>>

admin_open_lead_from_list_marks(a, id, scope, page) ==
    IF ~is_admin(a) THEN Denied
    ELSE /\ IF fetch_lead(id) = {}
            THEN answer' = NOT_FOUND /\ UNCHANGED <<leads, panel>>
            ELSE \E lead \in fetch_lead(id) :
                   LET seen == [lead EXCEPT !.status = "in_review"]
                   IN  /\ leads' = (leads \ {lead}) \cup {seen}
                       /\ Render(a, CardPanel(seen, scope, page))
                       /\ answer' = Null
         /\ UNCHANGED <<fsm_state, fsm_data, tasks, documents, log, runs,
                        entered, overlaps, now, environ, left, sent, filters>>

\* admin:lead:{id}:{scope}:{page}
admin_open_lead_from_list(a, id, scope, page) ==
    IF ~is_admin(a) THEN Denied
    ELSE /\ IF fetch_lead(id) = {}
            THEN answer' = NOT_FOUND /\ UNCHANGED panel
            ELSE \E lead \in fetch_lead(id) :
                   /\ Render(a, CardPanel(lead, scope, page))
                   /\ answer' = Null
         /\ UNCHANGED <<fsm_state, fsm_data, tasks, leads, documents, log,
                        runs, entered, overlaps, now, environ, left, sent,
                        filters>>

admin_set_status_closed_final(a, id, new_status, scope, page) ==
    IF ~is_admin(a) THEN Denied
    ELSE /\ IF fetch_lead(id) = {}
            THEN answer' = NOT_FOUND /\ UNCHANGED <<leads, panel>>
            ELSE \E lead \in fetch_lead(id) :
                   IF lead.status = "closed"
                   THEN answer' = NO_ACCESS /\ UNCHANGED <<leads, panel>>
                   ELSE LET new == [lead EXCEPT !.status = new_status]
                        IN  /\ leads' = (leads \ {lead}) \cup {new}
                            /\ answer' = STATUS_UPDATED
                            /\ Render(a, CardPanel(new, scope, page))
         /\ UNCHANGED <<fsm_state, fsm_data, tasks, documents, log, runs,
                        entered, overlaps, now, environ, left, sent, filters>>

admin_set_status_touches(a, id, new_status, scope, page) ==
    IF ~is_admin(a) THEN Denied
    ELSE /\ IF fetch_lead(id) = {}
            THEN answer' = NOT_FOUND /\ UNCHANGED <<leads, panel>>
            ELSE \E lead \in fetch_lead(id) :
                   LET new == [lead EXCEPT !.status = new_status,
                                           !.created_at = now]
                   IN  /\ leads' = (leads \ {lead}) \cup {new}
                       /\ answer' = STATUS_UPDATED
                       /\ Render(a, CardPanel(new, scope, page))
         /\ UNCHANGED <<fsm_state, fsm_data, tasks, documents, log, runs,
                        entered, overlaps, now, environ, left, sent, filters>>

\* admin:status:{id}:{status}:{scope}:{page}: the status is written, then the
\* card is rendered again from the row
admin_set_status(a, id, new_status, scope, page) ==
    IF ~is_admin(a) THEN Denied
    ELSE /\ IF fetch_lead(id) = {}
            THEN answer' = NOT_FOUND /\ UNCHANGED <<leads, panel>>
            ELSE \E lead \in fetch_lead(id) :
                   LET new == [lead EXCEPT !.status = new_status]
                   IN  /\ leads' = (leads \ {lead}) \cup {new}
                       /\ answer' = STATUS_UPDATED
                       /\ Render(a, CardPanel(new, scope, page))
         /\ UNCHANGED <<fsm_state, fsm_data, tasks, documents, log, runs,
                        entered, overlaps, now, environ, left, sent, filters>>

admin_delete_lead_orphans(a, id, scope, page) ==
    IF ~is_admin(a) THEN Denied
    ELSE /\ IF fetch_lead(id) = {}
            THEN /\ answer' = NOT_FOUND
                 /\ UNCHANGED <<leads, filters, panel>>
            ELSE \E lead \in fetch_lead(id) :
                   /\ leads' = leads \ {lead}
                   /\ answer' = DELETED
                   /\ filters' = Lookup(filters, a)
                   /\ \E items \in Query(leads \ {lead}, scope, page,
                                         get_filters(filters, a)) :
                        Render(a, ListPanel(get_filters(filters, a), items,
                                            scope, page))
         /\ UNCHANGED <<fsm_state, fsm_data, tasks, documents, log, runs,
                        entered, overlaps, now, environ, left, sent>>

admin_delete_lead_renders_first(a, id, scope, page) ==
    IF ~is_admin(a) THEN Denied
    ELSE /\ IF fetch_lead(id) = {}
            THEN /\ answer' = NOT_FOUND
                 /\ UNCHANGED <<leads, documents, filters, panel>>
            ELSE \E lead \in fetch_lead(id) :
                   /\ leads' = leads \ {lead}
                   /\ documents' = {d \in documents : d.lead_id # lead.id}
                   /\ answer' = DELETED
                   /\ filters' = Lookup(filters, a)
                   /\ \E items \in Query(leads, scope, page,
                                         get_filters(filters, a)) :
                        Render(a, ListPanel(get_filters(filters, a), items,
                                            scope, page))
         /\ UNCHANGED <<fsm_state, fsm_data, tasks, log, runs, entered,
                        overlaps, now, environ, left, sent>>

\* admin:delete:{id}:{scope}:{page}.  The documents of the lead go with it:
\* the foreign key is ON DELETE CASCADE, PRAGMA foreign_keys=ON,
\* passive_deletes=True.  Then the list page is fetched and rendered again
admin_delete_lead(a, id, scope, page) ==
    IF ~is_admin(a) THEN Denied
    ELSE /\ IF fetch_lead(id) = {}
            THEN /\ answer' = NOT_FOUND
                 /\ UNCHANGED <<leads, documents, filters, panel>>
            ELSE \E lead \in fetch_lead(id) :
                   /\ leads' = leads \ {lead}
                   /\ documents' = {d \in documents : d.lead_id # lead.id}
                   /\ answer' = DELETED
                   /\ filters' = Lookup(filters, a)
                   /\ \E items \in Query(leads \ {lead}, scope, page,
                                         get_filters(filters, a)) :
                        Render(a, ListPanel(get_filters(filters, a), items,
                                            scope, page))
         /\ UNCHANGED <<fsm_state, fsm_data, tasks, log, runs, entered,
                        overlaps, now, environ, left, sent>>

\* admin:lead:open:{id}, handled by app/admin.py
admin_open_lead_from_notify_looks_first(a, id) ==
    IF fetch_lead(id) = {}
    THEN /\ answer' = NOT_FOUND
         /\ UNCHANGED <<fsm_state, fsm_data, tasks, leads, documents, log,
                        runs, entered, overlaps, now, environ, left, sent,
                        filters,
                        panel>>
    ELSE admin_open_lead_from_list(a, id, "all", 0)

admin_open_lead_from_notify(a, id) == admin_open_lead_from_list(a, id, "all", 0)

\* -------------------------------------------------------------- export
\* contact = l.contact or ""; the apostrophe is put in front unless the
\* contact is empty or starts with one
\* x or "", as characters
OrEmpty(x) == IF x = Null THEN <<>> ELSE Chars(x)

ExportContact(cs) ==
    IF cs # <<>> /\ cs[1] # "'" THEN <<"'">> \o cs ELSE cs

\* brief.replace("\n", " ")
ExportBrief(cs) == [k \in DOMAIN cs |-> IF cs[k] = "\n" THEN " " ELSE cs[k]]

ExportRow(l) ==
    [id |-> l.id, created_at |-> l.created_at, status |-> l.status,
     source |-> l.source, name |-> l.name,
     contact |-> ExportContact(OrEmpty(l.contact)), email |-> l.email,
     category |-> l.category, urgency |-> l.urgency,
     brief |-> ExportBrief(OrEmpty(l.brief))]

\* select(Lead).order_by(desc(Lead.created_at)): the files the export may
\* write for the table
ExportFiles ==
    {[k \in DOMAIN s |-> ExportRow(s[k])] : s \in OrderByCreatedDesc(leads)}

admin_export_filtered(a) ==
    IF ~is_admin(a) THEN Denied
    ELSE /\ \E s \in OrderByCreatedDesc(Where(leads, "all",
                                               get_filters(filters, a))) :
              sent' = <<[kind |-> "export", to |-> a,
                         body |-> [k \in DOMAIN s |-> ExportRow(s[k])]]>>
         /\ answer' = DONE
         /\ UNCHANGED <<fsm_state, fsm_data, tasks, leads, documents, log,
                        runs, entered, overlaps, now, environ, left, filters,
                        panel>>

\* admin:export: the CSV file is sent to the chat as a new message
admin_export(a) ==
    IF ~is_admin(a) THEN Denied
    ELSE /\ \E file \in ExportFiles :
              sent' = <<[kind |-> "export", to |-> a, body |-> file]>>
         /\ answer' = DONE
         /\ UNCHANGED <<fsm_state, fsm_data, tasks, leads, documents, log,
                        runs, entered, overlaps, now, environ, left, filters,
                        panel>>

\* ------------------------------------------- app/handlers.py: staff actions
_is_admin(uid) == uid \in handlers_ADMIN_IDS

Unavailable ==
    /\ answer' = UNAVAILABLE
    /\ UNCHANGED <<fsm_state, fsm_data, tasks, leads, documents, log, runs,
                   entered, overlaps, now, environ, left, sent, filters, panel>>

\* the keyboard of the notification card, as the parts of callback_data
\* between the colons; str(lead_id) is the decimal string
DecimalStrings ==
    <<"1", "2", "3", "4", "5", "6", "7", "8", "9", "10", "11", "12", "13",
      "14", "15", "16", "17", "18", "19", "20", "21", "22">>

str(n) == IF n = 0 THEN "0" ELSE DecimalStrings[n]

\* int(s) of a part: one number, or none where Python raises ValueError
int_part(s) == {n \in 0..Len(DecimalStrings) : str(n) = s}

kb_admin_lead_actions(lead_id) ==
    {<<"admin", "lead", "open", str(lead_id)>>,
     <<"admin", "files", str(lead_id)>>,
     <<"admin", "lead", "status", str(lead_id), "in_review">>,
     <<"admin", "lead", "status", str(lead_id), "closed">>}

\* the card that app/handlers.py renders: _render_lead_card(lead) with
\* kb_admin_lead_actions(lead.id)
NotifyCardPanel(lead) ==
    [NoPanel EXCEPT !.view = "notify card", !.card = <<lead>>]

\* admin:files:{id}
admin_send_attachments(a, id) ==
    IF ~_is_admin(a) THEN Unavailable
    ELSE LET docs == {d \in documents : d.lead_id = id}
         IN  /\ IF docs = {}
                THEN answer' = NO_FILES /\ UNCHANGED sent
                ELSE /\ answer' = FILES_SENT
                     /\ sent' = <<[kind |-> "files", to |-> a,
                                   body |-> {d.file_id : d \in docs}]>>
             /\ UNCHANGED <<fsm_state, fsm_data, tasks, leads, documents,
                            log, runs, entered, overlaps, now, environ, left,
                            filters, panel>>

\* admin:lead:open:{id} of app/handlers.py
admin_open_lead(a, id) ==
    IF ~_is_admin(a) THEN Unavailable
    ELSE /\ IF fetch_lead(id) = {}
            THEN answer' = NOT_FOUND /\ UNCHANGED panel
            ELSE \E lead \in fetch_lead(id) :
                   /\ Render(a, NotifyCardPanel(lead))
                   /\ answer' = Null
         /\ UNCHANGED <<fsm_state, fsm_data, tasks, leads, documents, log,
                        runs, entered, overlaps, now, environ, left, sent,
                        filters>>

\* admin:lead:status:{id}:{status} of app/handlers.py
admin_change_status(a, id, new_status) ==
    IF ~_is_admin(a) THEN Unavailable
    ELSE /\ IF fetch_lead(id) = {}
            THEN answer' = NOT_FOUND /\ UNCHANGED <<leads, panel>>
            ELSE \E lead \in fetch_lead(id) :
                   LET new == [lead EXCEPT !.status = new_status]
                   IN  /\ leads' = (leads \ {lead}) \cup {new}
                       /\ Render(a, NotifyCardPanel(new))
                       /\ answer' = STATUS_UPDATED_OK
         /\ UNCHANGED <<fsm_state, fsm_data, tasks, documents, log, runs,
                        entered, overlaps, now, environ, left, sent, filters>>

\* ---------------------------------------------------- callback routing
\* A filter on callback_data, over its parts between the colons: F.data ==
\* "a:b" (eq), F.data.startswith("a:b:") (under: the parts of the prefix and
\* at least one more), F.data.startswith("a:b") (begins: the last part of
\* the prefix is the beginning of a part; the parts that the keyboards write
\* begin with "open" only when they are "open"), and the conjunctions with a
\* negation that app/admin.py uses
IsPrefix(pre, d) == Len(pre) <= Len(d) /\ SubSeq(d, 1, Len(pre)) = pre

Matches(f, d) ==
    CASE f.kind = "eq" -> d = f.parts
      [] f.kind = "under" -> Len(d) > Len(f.parts) /\ IsPrefix(f.parts, d)
      [] f.kind = "under, not begins" ->
            /\ Len(d) > Len(f.parts) /\ IsPrefix(f.parts, d)
            /\ ~IsPrefix(f.minus, d)

\* the callback handlers of the router of app/admin.py, in the order of
\* their registration
admin_router ==
    <<[kind |-> "eq", parts |-> <<"admin", "menu">>, to |-> "admin_menu"],
      [kind |-> "eq", parts |-> <<"admin", "filters">>,
       to |-> "admin_filters"],
      [kind |-> "under", parts |-> <<"admin", "filters", "set">>,
       to |-> "admin_filters_set"],
      [kind |-> "eq", parts |-> <<"admin", "filters", "clear">>,
       to |-> "admin_filters_clear"],
      [kind |-> "under", parts |-> <<"admin", "list">>, to |-> "admin_list"],
      [kind |-> "under, not begins", parts |-> <<"admin", "lead">>,
       minus |-> <<"admin", "lead", "open">>,
       to |-> "admin_open_lead_from_list"],
      [kind |-> "under", parts |-> <<"admin", "lead", "open">>,
       to |-> "admin_open_lead_from_notify"],
      [kind |-> "under", parts |-> <<"admin", "status">>,
       to |-> "admin_set_status"],
      [kind |-> "under", parts |-> <<"admin", "delete">>,
       to |-> "admin_delete_lead"],
      [kind |-> "eq", parts |-> <<"admin", "export">>, to |-> "admin_export"]>>

\* the handlers of the router of app/handlers.py that take admin: data
handlers_router ==
    <<[kind |-> "under", parts |-> <<"admin", "lead", "open">>,
       to |-> "admin_open_lead"],
      [kind |-> "under", parts |-> <<"admin", "lead", "status">>,
       to |-> "admin_change_status"],
      [kind |-> "under", parts |-> <<"admin", "files">>,
       to |-> "admin_send_attachments"]>>

\* dp.include_router(admin_router); dp.include_router(router)
include_router == admin_router \o handlers_router

\* the first handler whose filter passes takes the update
Route(d) ==
    LET hits == {k \in DOMAIN include_router : Matches(include_router[k], d)}
    IN  IF hits = {} THEN Null
        ELSE include_router[CHOOSE k \in hits : \A m \in hits : k <= m].to

\* an exception leaves the handler: nothing is answered, nothing is stored
Raise ==
    /\ answer' = RAISED
    /\ UNCHANGED <<fsm_state, fsm_data, tasks, leads, documents, log, runs,
                   entered, overlaps, now, environ, left, sent, filters, panel>>

\* admin_open_lead_from_list on the data d: the check of the caller, then
\* _, _, lead_id_str, scope, page_str = call.data.split(":") and
\* int(lead_id_str), which raise ValueError on other data, the lookup, and
\* int(page_str) once the lead is found
open_lead_from_list_data(a, d) ==
    IF Len(d) # 5 \/ int_part(d[3]) = {}
    THEN (IF ~is_admin(a) THEN Denied ELSE Raise)
    ELSE \E id \in int_part(d[3]) :
           IF is_admin(a) /\ fetch_lead(id) # {} /\ int_part(d[5]) = {}
           THEN Raise
           ELSE \E page \in (IF fetch_lead(id) = {} THEN {0}
                             ELSE int_part(d[5])) :
                  admin_open_lead_from_list(a, id, d[4], page)

\* the last part is the id: int(call.data.split(":")[-1])
LastId(d) == int_part(d[Len(d)])

\* a presses a button of a notification card: the dispatcher hands the
\* update to the handler that Route selects, which reads the id from the data
Dispatch(a, d) ==
    LET h == Route(d)
    IN  CASE h = "admin_open_lead_from_list" -> open_lead_from_list_data(a, d)
          [] h = "admin_open_lead_from_notify" ->
               IF LastId(d) = {}
               THEN (IF ~is_admin(a) THEN Denied ELSE Raise)
               ELSE \E id \in LastId(d) : admin_open_lead_from_notify(a, id)
          [] h = "admin_open_lead" ->
               IF LastId(d) = {}
               THEN (IF ~_is_admin(a) THEN Unavailable ELSE Raise)
               ELSE \E id \in LastId(d) : admin_open_lead(a, id)
          [] h = "admin_change_status" ->
               IF Len(d) # 5 \/ int_part(d[4]) = {}
               THEN (IF ~_is_admin(a) THEN Unavailable ELSE Raise)
               ELSE \E id \in int_part(d[4]) :
                      admin_change_status(a, id, d[5])
          [] h = "admin_send_attachments" ->
               IF LastId(d) = {}
               THEN (IF ~_is_admin(a) THEN Unavailable ELSE Raise)
               ELSE \E id \in LastId(d) : admin_send_attachments(a, id)

\* ------------------------------------------------------------------- next
Next ==
    \/ \E u \in Users, ev \in Events : Deliver(u, ev)
    \/ \E i \in TaskIds :
     \/ blog_menu(i) \/ cmd_start(i) \/ start_button(i) \/ back_to_menu(i)
     \/ about(i) \/ first_touch_fallback(i)
     \/ quick_entry(i) \/ quick_cat_back(i) \/ quick_set_category(i)
     \/ quick_brief_pdf(i) \/ quick_brief_back(i) \/ quick_brief_ok(i)
     \/ quick_brief_long(i) \/ quick_urg_back(i) \/ quick_urgency_set(i)
     \/ quick_offer_back(i) \/ quick_offer(i) \/ quick_name_back(i)
     \/ quick_name(i) \/ quick_contact_shared(i) \/ quick_contact_back(i)
     \/ quick_contact_ok(i) \/ quick_contact_bad(i) \/ quick_email_back(i)
     \/ quick_email_skip(i) \/ quick_email(i) \/ finalize_quick(i)
     \/ booking_entry(i) \/ booking_fmt_back(i) \/ booking_set_fmt(i)
     \/ booking_dur_back(i) \/ booking_set_dur(i) \/ booking_name_back(i)
     \/ booking_name(i) \/ booking_contact_shared(i) \/ booking_contact_back(i)
     \/ booking_contact_ok(i) \/ booking_contact_bad(i) \/ booking_email_skip(i)
     \/ booking_email_back(i) \/ booking_email(i) \/ finalize_booking(i)
     \/ document_entry(i) \/ document_type_back(i) \/ document_set_type(i)
     \/ document_upload_back(i) \/ document_got_file(i) \/ document_comment(i)
     \/ document_plan_back(i) \/ document_finish(i) \/ document_finish_commit(i)
     \/ append_lead_safe(i) \/ notify_admins_with_actions(i)
     \/ finalize_reply(i)

Spec == Init /\ [][Next]_vars

\* one update at a time: an update arrives only when none is in flight
NextSeq ==
    \/ \E u \in Users, ev \in Events : tasks = <<>> /\ Deliver(u, ev)
    \/ \E i \in TaskIds :
     \/ blog_menu(i) \/ cmd_start(i) \/ start_button(i) \/ back_to_menu(i)
     \/ about(i) \/ first_touch_fallback(i)
     \/ quick_entry(i) \/ quick_cat_back(i) \/ quick_set_category(i)
     \/ quick_brief_pdf(i) \/ quick_brief_back(i) \/ quick_brief_ok(i)
     \/ quick_brief_long(i) \/ quick_urg_back(i) \/ quick_urgency_set(i)
     \/ quick_offer_back(i) \/ quick_offer(i) \/ quick_name_back(i)
     \/ quick_name(i) \/ quick_contact_shared(i) \/ quick_contact_back(i)
     \/ quick_contact_ok(i) \/ quick_contact_bad(i) \/ quick_email_back(i)
     \/ quick_email_skip(i) \/ quick_email(i) \/ finalize_quick(i)
     \/ booking_entry(i) \/ booking_fmt_back(i) \/ booking_set_fmt(i)
     \/ booking_dur_back(i) \/ booking_set_dur(i) \/ booking_name_back(i)
     \/ booking_name(i) \/ booking_contact_shared(i) \/ booking_contact_back(i)
     \/ booking_contact_ok(i) \/ booking_contact_bad(i) \/ booking_email_skip(i)
     \/ booking_email_back(i) \/ booking_email(i) \/ finalize_booking(i)
     \/ document_entry(i) \/ document_type_back(i) \/ document_set_type(i)
     \/ document_upload_back(i) \/ document_got_file(i) \/ document_comment(i)
     \/ document_plan_back(i) \/ document_finish(i) \/ document_finish_commit(i)
     \/ append_lead_safe(i) \/ notify_admins_with_actions(i)
     \/ finalize_reply(i)

SeqSpec == Init /\ [][NextSeq]_vars

\* the staff at work: users run the Quick and the Document flow straight
\* through, one update at a time, and a staff member may change or delete a
\* lead at any moment
StraightEvents ==
    [kind : {"text"}, val : {T_QUICK, T_CMD_DOCUMENT, T_NAME, T_PHONE,
                             T_SKIP}, file : {Null}]
    \cup [kind : {"callback"},
          val : {<<"quick", "cat", "criminal">>, <<"quick", "urg", "today">>,
                 <<"offer", "skip">>, <<"doc", "type", "contract">>,
                 <<"doc", "plan", "express">>},
          file : {Null}]
    \cup {[kind |-> "document", val |-> MIME_PDF, file |-> "f1"]}

\* bound on the inputs: the staff user who presses the buttons
OnDuty == {9}

StraightHandlers ==
    {"quick_entry", "quick_set_category", "quick_brief_pdf", "quick_brief_ok",
     "quick_urgency_set", "quick_offer", "quick_name", "quick_contact_ok",
     "quick_email_skip", "document_entry", "document_set_type",
     "document_got_file", "document_comment", "document_finish"}

Straight(u, ev) ==
    LET h == Select(fsm_state[u], ev)
    IN  /\ tasks = <<>>
        /\ h \in StraightHandlers
        /\ WillEnter(h, ev) => h # Null /\ fsm_state[u] = NoState
        /\ ~Routed(h, ev)

NextStaff ==
    \/ \E u \in Users, ev \in StraightEvents : Straight(u, ev) /\ Deliver(u, ev)
    \/ \E i \in TaskIds :
     \/ quick_entry(i) \/ quick_set_category(i) \/ quick_brief_pdf(i)
     \/ quick_brief_ok(i) \/ quick_urgency_set(i) \/ quick_offer(i)
     \/ quick_name(i) \/ quick_contact_ok(i) \/ quick_email_skip(i)
     \/ finalize_quick(i)
     \/ document_entry(i) \/ document_set_type(i) \/ document_got_file(i)
     \/ document_comment(i) \/ document_finish(i) \/ document_finish_commit(i)
     \/ append_lead_safe(i) \/ notify_admins_with_actions(i)
     \/ finalize_reply(i)
    \/ \E a \in OnDuty \cup Users, id \in LeadIds :
     \/ \E st \in StatusButtons : admin_set_status(a, id, st, "all", 0)
     \/ admin_delete_lead(a, id, "all", 0)

StaffSpec == Init /\ [][NextStaff]_vars

\* the Quick and Booking flows walked forward (no back, no menu), one update
\* at a time, with any of the typed strings at the contact and the email
\* steps; a flow may be entered again at any step
InputEvents ==
    [kind : {"text"},
     val : {T_QUICK, T_BOOK, T_NAME, T_SKIP, T_EMAIL, T_DASH, T_MDASH}
           \cup ContactTexts,
     file : {Null}]
    \cup [kind : {"callback"},
          val : {<<"quick", "cat", "criminal">>, <<"quick", "urg", "today">>,
                 <<"offer", "30">>, <<"offer", "skip">>,
                 <<"book", "fmt", "phone">>, <<"book", "dur", "60">>},
          file : {Null}]

InputHandlers ==
    {"quick_entry", "quick_set_category", "quick_brief_ok",
     "quick_urgency_set", "quick_offer", "quick_name", "quick_contact_ok",
     "quick_contact_bad", "quick_email_skip", "quick_email",
     "booking_entry", "booking_set_fmt", "booking_set_dur", "booking_name",
     "booking_contact_ok", "booking_contact_bad", "booking_email_skip",
     "booking_email"}

Typed(u, ev) ==
    LET h == Select(fsm_state[u], ev)
    IN  /\ tasks = <<>>
        /\ h \in InputHandlers
        /\ ~Routed(h, ev)

NextInput ==
    \/ \E u \in Users, ev \in InputEvents : Typed(u, ev) /\ Deliver(u, ev)
    \/ \E i \in TaskIds :
     \/ quick_entry(i) \/ quick_set_category(i) \/ quick_brief_ok(i)
     \/ quick_urgency_set(i) \/ quick_offer(i) \/ quick_name(i)
     \/ quick_contact_ok(i) \/ quick_contact_bad(i) \/ quick_email_skip(i)
     \/ quick_email(i) \/ finalize_quick(i)
     \/ booking_entry(i) \/ booking_set_fmt(i) \/ booking_set_dur(i)
     \/ booking_name(i) \/ booking_contact_ok(i) \/ booking_contact_bad(i)
     \/ booking_email_skip(i) \/ booking_email(i) \/ finalize_booking(i)
     \/ append_lead_safe(i) \/ notify_admins_with_actions(i)
     \/ finalize_reply(i)

InputSpec == Init /\ [][NextInput]_vars

\* the Document flow alone, one update at a time, never left through the
\* menu: entry, type, files, comment, back from the upload and plan steps,
\* plan
DocEvents ==
    [kind : {"text"}, val : {T_CMD_DOCUMENT, T_BACK, T_NAME}, file : {Null}]
    \cup [kind : {"callback"},
          val : {CB_BACK, <<"doc", "type", "contract">>,
                 <<"doc", "plan", "express">>},
          file : {Null}]
    \cup {[kind |-> "document", val |-> MIME_PDF, file |-> "f1"],
          [kind |-> "document", val |-> MIME_PNG, file |-> "f2"],
          [kind |-> "photo", val |-> Null, file |-> "f2"]}

DocHandlers ==
    {"document_entry", "document_set_type", "document_upload_back",
     "document_got_file", "document_comment", "document_plan_back",
     "document_finish"}

Doc(u, ev) ==
    LET h == Select(fsm_state[u], ev)
    IN  /\ tasks = <<>>
        /\ h \in DocHandlers
        /\ WillEnter(h, ev) => fsm_state[u] = NoState

DocStep(i) ==
    \/ document_entry(i) \/ document_set_type(i) \/ document_upload_back(i)
    \/ document_got_file(i) \/ document_comment(i) \/ document_plan_back(i)
    \/ document_finish(i) \/ document_finish_commit(i)
    \/ append_lead_safe(i) \/ notify_admins_with_actions(i)
    \/ finalize_reply(i)

NextDoc ==
    \/ \E u \in Users, ev \in DocEvents : Doc(u, ev) /\ Deliver(u, ev)
    \/ \E i \in TaskIds : DocStep(i)

\* every handler started runs to its end, and the user keeps sending every
\* input that is accepted, except that nothing makes them write a comment
NoComment == {ev \in DocEvents : ev.kind # "text" \/ ev.val # T_NAME}

DocSpec ==
    /\ Init /\ [][NextDoc]_vars
    /\ WF_vars(\E i \in TaskIds : DocStep(i))
    /\ \A u \in Users : \A ev \in NoComment :
          SF_vars(Doc(u, ev) /\ Deliver(u, ev))

\* ------------------------------------------------------------ staff panel
\* no update is in flight and no user is in a flow
Quiet == tasks = <<>> /\ \A u \in Users : fsm_state[u] = NoState

\* the staff user a sees the button d under the panel message.  Bound on the
\* inputs: buttons are pressed while no user is in a flow
Shown(a, d) == Quiet /\ d \in Keyboard(panel[a])

\* a presses the button d: the handler that the admin router selects for the
\* callback data.  The buttons that lead from one view to another
Browse(a, d) ==
    \/ Shown(a, d) /\ d = <<"admin", "menu">> /\ admin_menu(a)
    \/ Shown(a, d) /\ d = <<"admin", "filters">> /\ admin_filters(a)
    \/ Shown(a, d) /\ d[2] = "list" /\ admin_list(a, d[3], d[4])

\* the buttons of the filters view
Sift(a, d) ==
    \/ Shown(a, d) /\ d[2] = "filters" /\ Len(d) = 5
         /\ admin_filters_set(a, d[4], d[5])
    \/ Shown(a, d) /\ d = <<"admin", "filters", "clear">>
         /\ admin_filters_clear(a)

\* the rows of a list and the buttons of a card
Act(a, d) ==
    \/ Shown(a, d) /\ d[2] = "lead"
         /\ admin_open_lead_from_list(a, d[3], d[4], d[5])
    \/ Shown(a, d) /\ d[2] = "status"
         /\ admin_set_status(a, d[3], d[4], d[5], d[6])
    \/ Shown(a, d) /\ d[2] = "delete"
         /\ admin_delete_lead(a, d[3], d[4], d[5])

Press(a, d) == Browse(a, d) \/ Sift(a, d) \/ Act(a, d)

\* the export button of the menu
Export(a, d) == Shown(a, d) /\ d = <<"admin", "export">> /\ admin_export(a)

\* callback data that a client sends whether or not a message shows the
\* button: the handler that the admin router selects
Invoke(a, d) ==
    \/ d = <<"admin", "menu">> /\ admin_menu(a)
    \/ d = <<"admin", "filters">> /\ admin_filters(a)
    \/ d[2] = "list" /\ admin_list(a, d[3], d[4])
    \/ d[2] = "filters" /\ Len(d) = 5 /\ admin_filters_set(a, d[4], d[5])
    \/ d = <<"admin", "filters", "clear">> /\ admin_filters_clear(a)
    \/ d[2] = "lead" /\ admin_open_lead_from_list(a, d[3], d[4], d[5])
    \/ d[2] = "status" /\ admin_set_status(a, d[3], d[4], d[5], d[6])
    \/ d[2] = "delete" /\ admin_delete_lead(a, d[3], d[4], d[5])
    \/ d = <<"admin", "export">> /\ admin_export(a)

\* every button that a panel message can carry for the leads ids and the
\* pages given
Buttons(ids, pages) ==
    kb_admin_menu \cup kb_filters
    \cup UNION {kb_lead_actions(id, scope, page)
                \cup {<<"admin", "lead", id, scope, page>>} :
                  id \in ids, scope \in Scopes, page \in pages}

IsFilterSet(d) == d[2] = "filters" /\ Len(d) = 5

\* /admin
Open(a) == Quiet /\ admin_entry(a)

\* the flows that the users of the panel specifications run
FlowStep(i) ==
    \/ quick_entry(i) \/ quick_set_category(i) \/ quick_brief_pdf(i)
    \/ quick_brief_ok(i) \/ quick_urgency_set(i) \/ quick_offer(i)
    \/ quick_name(i) \/ quick_contact_ok(i) \/ quick_email_skip(i)
    \/ finalize_quick(i)
    \/ document_entry(i) \/ document_set_type(i) \/ document_got_file(i)
    \/ document_comment(i) \/ document_finish(i) \/ document_finish_commit(i)
    \/ append_lead_safe(i) \/ notify_admins_with_actions(i)
    \/ finalize_reply(i)

\* bound on the inputs: the readings of the clock
Instants == {0, 7, 31}

Pass(d) == Quiet /\ now + d \in Instants /\ Tick(d)

\* The staff panel.  Users run the Quick and the Document flow straight
\* through, days pass, and the staff user on duty opens the panel with /admin
\* and presses the buttons that the panel message shows.  Bound on the
\* inputs: the filter button pressed is "all sources", and the status
\* button pressed is "closed"
PanelButtons ==
    {d \in Buttons(LeadIds, {0}) :
        /\ IsFilterSet(d) => d[4] = "source" /\ d[5] = "any"
        /\ d[2] = "status" => d[4] = "closed"}

NextPanel ==
    \/ \E u \in Users, ev \in StraightEvents : Straight(u, ev) /\ Deliver(u, ev)
    \/ \E i \in TaskIds : FlowStep(i)
    \/ \E d \in 1..MaxNow : Pass(d)
    \/ \E a \in OnDuty : Open(a)
    \/ \E a \in OnDuty, d \in PanelButtons : Press(a, d)

PanelSpec == Init /\ [][NextPanel]_vars

\* The filters alone.  Two staff users open the panel and press the buttons
\* of the menu and of the filters view; the table of leads is empty.  Bound
\* on the inputs: staff user 9 presses every button, staff user 8 the status
\* buttons and the clear button
FilterButtons ==
    [a \in Admins |->
        {d \in Buttons({}, {}) :
            /\ d # <<"admin", "export">>
            /\ a # 9 /\ IsFilterSet(d) => d[4] = "status"}]

NextFilter ==
    \/ \E a \in Admins : Open(a)
    \/ \E a \in Admins : \E d \in FilterButtons[a] : Browse(a, d) \/ Sift(a, d)

FilterSpec == Init /\ [][NextFilter]_vars

\* The lists under filters.  A user runs the Quick and the Document flow
\* while days pass; then the staff user on duty opens the panel, chooses
\* filters, lists the leads, and closes or deletes some, while more days pass.
\* Bounds on the inputs: the user sends no file, the flows end before the
\* panel is opened, the filter buttons pressed are those of ListChoices, the
\* status button pressed is "closed", on the card of a lead other than the
\* first, and the delete button is pressed on the card of the first lead
ListLeads == 2

ListEvents == {ev \in StraightEvents : ev.kind # "document"}

ListFlowStep(i) ==
    \/ quick_entry(i) \/ quick_set_category(i) \/ quick_brief_ok(i)
    \/ quick_urgency_set(i) \/ quick_offer(i) \/ quick_name(i)
    \/ quick_contact_ok(i) \/ quick_email_skip(i) \/ finalize_quick(i)
    \/ document_entry(i) \/ document_set_type(i) \/ document_comment(i)
    \/ document_finish(i) \/ document_finish_commit(i)
    \/ append_lead_safe(i) \/ notify_admins_with_actions(i)
    \/ finalize_reply(i)

ListChoices ==
    [status |-> {"any", "new", "closed"}, source |-> {"any", "quick"},
     period |-> {"7d", "all"}]

ListButtons ==
    {d \in Buttons(1..ListLeads, {0}) :
        /\ IsFilterSet(d) => d[5] \in ListChoices[d[4]]
        /\ d[2] = "status" => d[4] = "closed" /\ d[3] # 1
        /\ d[2] = "delete" => d[3] = 1}

NextList ==
    \/ \E u \in Users, ev \in ListEvents :
          /\ \A a \in Admins : panel[a] = NoPanel
          /\ Straight(u, ev)
          /\ Arrive(u, ev, ListLeads, ListLeads)
    \/ \E i \in TaskIds : ListFlowStep(i)
    \/ \E d \in 1..MaxNow : Pass(d)
    \/ \E a \in OnDuty : Open(a)
    \/ \E a \in OnDuty, d \in ListButtons : Press(a, d)

ListSpec == Init /\ [][NextList]_vars

\* ------------------------------------------------------------- two users
\* Two users walk the Document flow forward while days pass; the plan button
\* of one may be pressed while the finalize of the other is in flight
Pair == {1, 2}

InitPair ==
    /\ fsm_state = [u \in Pair |-> NoState]
    /\ fsm_data = [u \in Pair |-> EmptyData]
    /\ tasks = <<>>
    /\ leads = {}
    /\ documents = {}
    /\ log = <<>>
    /\ runs = [u \in Pair |-> 0]
    /\ entered = [u \in Pair |-> EmptyData]
    /\ overlaps = 0
    /\ answer = Null
    /\ now = 0
    /\ filters = [a \in Admins |-> <<>>]
    /\ panel = [a \in Admins |-> NoPanel]
    /\ environ = ADMIN_IDS_SETTING
    /\ sent = <<>>
    /\ left = {}

PairEvents ==
    [kind : {"text"}, val : {T_CMD_DOCUMENT, T_NAME}, file : {Null}]
    \cup [kind : {"callback"},
          val : {<<"doc", "type", "contract">>, <<"doc", "plan", "express">>},
          file : {Null}]

PairHandlers ==
    {"document_entry", "document_set_type", "document_comment",
     "document_finish"}

\* bound on the inputs: a user sends the next update after the reply to the
\* one before
Alone(u, ev) ==
    LET h == Select(fsm_state[u], ev)
    IN  /\ \A i \in DOMAIN tasks : tasks[i].user # u
        /\ h \in PairHandlers
        /\ WillEnter(h, ev) => fsm_state[u] = NoState

NextPair ==
    \/ \E u \in Pair, ev \in PairEvents : Alone(u, ev) /\ Deliver(u, ev)
    \/ \E i \in TaskIds :
     \/ document_entry(i) \/ document_set_type(i) \/ document_comment(i)
     \/ document_finish(i) \/ document_finish_commit(i)
     \/ append_lead_safe(i) \/ notify_admins_with_actions(i)
     \/ finalize_reply(i)
    \/ now < MaxLeads /\ Tick(1)

PairSpec == InitPair /\ [][NextPair]_vars

\* ------------------------------------------------------------ list pages
\* The pages of a list.  A user runs the Document flow up to PageLeads
\* times; then the staff user on duty opens the panel and walks through the
\* pages of the lists, opens the cards of the leads 1, 11 and 21, closes the
\* leads 1 and 21 and deletes the leads 11 and 21.
\* Bounds on the inputs: up to two leads are created on day 0 and one lead on
\* each later day, the flows end before the panel is opened, and the
\* FilterSet stays the default one
PageLeads == 21

Today == {l \in leads : l.created_at = now}

NextDay ==
    /\ Quiet
    /\ \A a \in Admins : panel[a] = NoPanel
    /\ Today # {}
    /\ Tick(1)

PageButtons ==
    {d \in Buttons({1, 11, 21}, 0..2) :
        /\ ~IsFilterSet(d)
        /\ d \notin {<<"admin", "filters", "clear">>, <<"admin", "export">>}
        /\ d[2] = "status" => d[3] \in {1, 21} /\ d[4] = "closed"
        /\ d[2] = "delete" => d[3] \in {11, 21}}

NextPage ==
    \/ \E u \in Users, ev \in PairEvents :
          /\ \A a \in Admins : panel[a] = NoPanel
          /\ WillEnter(Select(fsm_state[u], ev), ev) =>
                Cardinality(Today) < (IF now = 0 THEN 2 ELSE 1)
          /\ Alone(u, ev)
          /\ Arrive(u, ev, PageLeads, PageLeads)
    \/ \E i \in TaskIds :
     \/ document_entry(i) \/ document_set_type(i) \/ document_comment(i)
     \/ document_finish(i) \/ document_finish_commit(i)
     \/ append_lead_safe(i) \/ notify_admins_with_actions(i)
     \/ finalize_reply(i)
    \/ NextDay
    \/ \E a \in OnDuty : Open(a)
    \/ \E a \in OnDuty, d \in PageButtons : Browse(a, d) \/ Act(a, d)

PageSpec == Init /\ [][NextPage]_vars

\* -------------------------------------------------------------- outsiders
\* the buttons of the notification cards of the leads
CardButtons == UNION {kb_admin_lead_actions(id) : id \in LeadIds}

\* notify_admins_with_actions was called for the lead
Carded(id) == \E k \in DOMAIN log : log[k].id = id

\* a staff user presses a button of a card that was sent
PressCard(a, d) ==
    /\ Quiet
    /\ a \in handlers_ADMIN_IDS
    /\ \E id \in LeadIds : Carded(id) /\ d \in kb_admin_lead_actions(id)
    /\ Dispatch(a, d)

\* a client sends callback data of its own making
Forge(u, d) == Quiet /\ Invoke(u, d)
ForgeCard(u, d) == Quiet /\ Dispatch(u, d)

\* The users run the Quick and the Document flow straight through.  The
\* staff user on duty opens the panel, presses the buttons that the panel
\* and the notification cards show; a user who is not staff sends /admin and
\* the callback data of every button, for ids with and without a lead.
\* Bounds on the inputs: the staff user presses the buttons of StaffButtons
\* and of the cards, and the flows end before the first of these operations
StaffButtons ==
    {<<"admin", "menu">>, <<"admin", "filters">>, <<"admin", "list", "all", 0>>,
     <<"admin", "filters", "set", "source", "any">>,
     <<"admin", "filters", "clear">>, <<"admin", "export">>}

Untouched ==
    /\ answer = Null
    /\ sent = <<>>
    /\ \A a \in Admins : panel[a] = NoPanel

NextOutsider ==
    \/ \E u \in Users, ev \in StraightEvents :
          Untouched /\ Straight(u, ev) /\ Deliver(u, ev)
    \/ \E i \in TaskIds : FlowStep(i)
    \/ \E a \in OnDuty \cup Users : Open(a)
    \/ \E a \in OnDuty, d \in StaffButtons :
          Browse(a, d) \/ Sift(a, d) \/ Export(a, d)
    \/ \E a \in OnDuty, d \in CardButtons : PressCard(a, d)
    \/ \E u \in Users, d \in PanelButtons : Forge(u, d)
    \/ \E u \in Users, d \in CardButtons : ForgeCard(u, d)

OutsiderSpec == Init /\ [][NextOutsider]_vars

\* ----------------------------------------------------------- stale buttons
\* The staff user on duty presses the buttons that the panel shows and also
\* the row and the delete buttons of earlier panel messages and the open
\* button of the notification cards, for leads that were deleted or never
\* created.  Bounds on the inputs: PanelButtons, the pages 0 and 1 of the
\* earlier messages, and the flows end before the first operation
StaleButtons ==
    {d \in Buttons(LeadIds, 0..1) : d[2] \in {"lead", "delete"}}

Stale(a, d) ==
    /\ Quiet
    /\ panel[a] # NoPanel
    /\ \/ d[2] = "lead" /\ admin_open_lead_from_list(a, d[3], d[4], d[5])
       \/ d[2] = "delete" /\ admin_delete_lead(a, d[3], d[4], d[5])

StaleCard(a, id) ==
    /\ Quiet
    /\ a \in handlers_ADMIN_IDS
    /\ Carded(id)
    /\ admin_open_lead_from_notify(a, id)

NextStale ==
    \/ \E u \in Users, ev \in StraightEvents :
          Untouched /\ Straight(u, ev) /\ Deliver(u, ev)
    \/ \E i \in TaskIds : FlowStep(i)
    \/ \E a \in OnDuty : Open(a)
    \/ \E a \in OnDuty, d \in PanelButtons : Press(a, d)
    \/ \E a \in OnDuty, d \in StaleButtons : Stale(a, d)
    \/ \E a \in OnDuty, id \in LeadIds : StaleCard(a, id)

StaleSpec == Init /\ [][NextStale]_vars

\* ------------------------------------------------------------------ export
\* The users run the Quick and the Document flow on several days, with a
\* brief of one or of two lines; then the staff user on duty opens the panel,
\* sets and clears a filter, lists and exports.  Bounds on the inputs: the
\* filter button pressed is "closed", and the flows end before the panel is
\* opened
ExportEvents ==
    StraightEvents \cup [kind : {"text"}, val : BriefTexts, file : {Null}]

ExportButtons ==
    {<<"admin", "menu">>, <<"admin", "filters">>, <<"admin", "list", "all", 0>>,
     <<"admin", "filters", "set", "status", "closed">>,
     <<"admin", "filters", "clear">>, <<"admin", "export">>}

NextExport ==
    \/ \E u \in Users, ev \in ExportEvents :
          Untouched /\ Straight(u, ev) /\ Deliver(u, ev)
    \/ \E i \in TaskIds : FlowStep(i)
    \/ \E d \in 1..MaxNow : Untouched /\ Pass(d)
    \/ \E a \in OnDuty : Open(a)
    \/ \E a \in OnDuty, d \in ExportButtons :
          Browse(a, d) \/ Sift(a, d) \/ Export(a, d)

ExportSpec == Init /\ [][NextExport]_vars

\* ------------------------------------------------------------ every event
\* The Quick and the Document flow with entries, inputs, inputs that fail
\* the validation, back buttons and the menu, one update at a time; then the
\* staff user on duty opens the panel and presses the buttons of the panel
\* and of the notification cards.  Bounds on the inputs: FrameEvents,
\* PanelButtons, and the flows end before the panel is opened
FrameEvents ==
    StraightEvents
    \cup [kind : {"text"}, val : {T_BACK, T_MENU}, file : {Null}]

FrameStep(i) ==
    \/ FlowStep(i)
    \/ back_to_menu(i) \/ first_touch_fallback(i)
    \/ quick_brief_back(i) \/ quick_name_back(i) \/ quick_contact_back(i)
    \/ quick_contact_bad(i) \/ quick_email_back(i) \/ quick_email(i)
    \/ document_upload_back(i)

NextFrame ==
    \/ \E u \in Users, ev \in FrameEvents :
          Untouched /\ tasks = <<>> /\ Deliver(u, ev)
    \/ \E i \in TaskIds : FrameStep(i)
    \/ \E a \in OnDuty : Open(a)
    \/ \E a \in OnDuty, d \in PanelButtons : Press(a, d) \/ Export(a, d)
    \/ \E a \in OnDuty, d \in CardButtons : PressCard(a, d)

FrameSpec == Init /\ [][NextFrame]_vars

\* ------------------------------------------------- two users, interleaved
\* Two users walk the Quick flow forward at the same time: an update of one
\* user arrives while an update of the other is in flight, at any of its
\* awaits.  Bounds on the inputs: a user sends the next update after the reply
\* to the one before, each user enters the flow once, the contact typed is
\* T_PHONE or T_FIVE_DIGITS, which valid_contact rejects
IsolationEvents ==
    [kind : {"text"}, val : {T_QUICK, T_NAME, T_PHONE, T_FIVE_DIGITS, T_SKIP},
     file : {Null}]
    \cup [kind : {"callback"},
          val : {<<"quick", "cat", "criminal">>, <<"quick", "urg", "today">>,
                 <<"offer", "skip">>},
          file : {Null}]
    \cup {[kind |-> "document", val |-> MIME_PDF, file |-> "f1"]}

IsolationHandlers ==
    {"quick_entry", "quick_set_category", "quick_brief_pdf", "quick_brief_ok",
     "quick_urgency_set", "quick_offer", "quick_name", "quick_contact_ok",
     "quick_contact_bad", "quick_email_skip"}

Interleave(u, ev) ==
    LET h == Select(fsm_state[u], ev)
        finalizing ==
            {i \in DOMAIN tasks : WillFinalize(tasks[i].handler, tasks[i].ev)}
    IN  /\ Len(tasks) < Cardinality(Pair)
        /\ \A i \in DOMAIN tasks : tasks[i].user # u
        /\ h \in IsolationHandlers
        /\ ~Routed(h, ev)
        /\ h \in FreeTextHandlers => ev.val = T_NAME
        /\ WillEnter(h, ev) => fsm_state[u] = NoState /\ runs[u] = 0
        /\ h = "quick_brief_pdf" => fsm_data[u].pdfs = <<>>
        /\ WillFinalize(h, ev) =>
              Len(log) + Cardinality(finalizing) < MaxLeads
        /\ tasks' = Append(tasks, Task(u, h, ev))
        /\ UNCHANGED <<fsm_state, fsm_data, leads, documents, log, runs,
                       entered, overlaps, answer, now, environ, left, sent,
                       filters,
                       panel>>

IsolationStep(i) ==
    \/ quick_entry(i) \/ quick_set_category(i) \/ quick_brief_pdf(i)
    \/ quick_brief_ok(i) \/ quick_urgency_set(i) \/ quick_offer(i)
    \/ quick_name(i) \/ quick_contact_ok(i) \/ quick_contact_bad(i)
    \/ quick_email_skip(i) \/ finalize_quick(i)
    \/ append_lead_safe(i) \/ notify_admins_with_actions(i)
    \/ finalize_reply(i)

NextIsolation ==
    \/ \E u \in Pair, ev \in IsolationEvents : Interleave(u, ev)
    \/ \E i \in TaskIds : IsolationStep(i)

IsolationSpec == InitPair /\ [][NextIsolation]_vars

\* ------------------------------------------------ a flow during a finalize
\* A user walks the Quick and the Document flow forward, one update at a
\* time, and while a finalize of the user is between the reading of the Draft
\* and its end the user enters the Quick flow again and picks a category.
\* Bound on the inputs: RestartEvents
RestartEvents ==
    {[kind |-> "text", val |-> T_QUICK, file |-> Null],
     [kind |-> "callback", val |-> <<"quick", "cat", "criminal">>,
      file |-> Null]}

\* a finalize of u has read the Draft and has not ended
HasRead(u) ==
    \E i \in DOMAIN tasks :
       /\ tasks[i].user = u
       /\ WillFinalize(tasks[i].handler, tasks[i].ev)
       /\ tasks[i].pc \in {"db", "mirror", "notify", "reply"}

Restart(u, ev) ==
    LET h == Select(fsm_state[u], ev)
    IN  /\ Len(tasks) = 1
        /\ HasRead(u)
        /\ h \in {"quick_entry", "quick_set_category"}
        /\ WillEnter(h, ev) => runs[u] < MaxRuns /\ runs[u] = tasks[1].inst
        /\ h = "quick_set_category" => runs[u] > tasks[1].inst
        /\ tasks' = Append(tasks, Task(u, h, ev))
        /\ UNCHANGED <<fsm_state, fsm_data, leads, documents, log, runs,
                       entered, overlaps, answer, now, environ, left, sent,
                       filters,
                       panel>>

NextRestart ==
    \/ \E u \in Users, ev \in StraightEvents : Straight(u, ev) /\ Deliver(u, ev)
    \/ \E u \in Users, ev \in RestartEvents : Restart(u, ev)
    \/ \E i \in TaskIds : FlowStep(i)

RestartSpec == Init /\ [][NextRestart]_vars

\* ------------------------------------------------- buttons of old messages
\* the inline keyboard of the message that a step shows (app/keyboards.py).
\* Bound on the inputs: one button of each kind
inline_kb(step) ==
    CASE step = "Quick:category" -> {<<"quick", "cat", "criminal">>, CB_BACK}
      [] step = "Quick:urgency" -> {<<"quick", "urg", "today">>, CB_BACK}
      [] step = "Quick:offer" -> {<<"offer", "30">>, <<"offer", "skip">>,
                                    CB_BACK}
      [] step = "Booking:fmt" -> {<<"book", "fmt", "phone">>, CB_BACK}
      [] step = "DocumentFlow:type" -> {<<"doc", "type", "contract">>, CB_BACK}
      [] step = "DocumentFlow:plan" -> {<<"doc", "plan", "express">>, CB_BACK}
      [] OTHER -> {}

\* the user is at a step whose message shows an inline keyboard and types
\* the command of a flow: the entry handler sends a new message, and the
\* message of the step keeps its keyboard
Leave(u, ev) ==
    LET h == Select(fsm_state[u], ev)
    IN  /\ tasks = <<>>
        /\ inline_kb(fsm_state[u]) # {}
        /\ h \in {"quick_entry", "document_entry"}
        /\ runs[u] < MaxRuns
        /\ tasks' = Append(tasks, Task(u, h, ev))
        /\ left' = left \cup {[user |-> u, step |-> fsm_state[u]]}
        /\ UNCHANGED <<fsm_state, fsm_data, leads, documents, log, runs,
                       entered, overlaps, answer, now, environ, sent, filters,
                       panel>>

\* the user presses the button d of a message left at step s while the
\* session is not at s: an update that no handler takes is dropped, and the
\* handler that takes it edits the message, which loses the keyboard
OldPress(u, s, d) ==
    LET ev == [kind |-> "callback", val |-> d, file |-> Null]
        h == Select(fsm_state[u], ev)
    IN  /\ tasks = <<>>
        /\ [user |-> u, step |-> s] \in left
        /\ s # fsm_state[u]
        /\ d \in inline_kb(s)
        /\ h # Null
        /\ tasks' = Append(tasks, Task(u, h, ev))
        /\ left' = left \ {[user |-> u, step |-> s]}
        /\ UNCHANGED <<fsm_state, fsm_data, leads, documents, log, runs,
                       entered, overlaps, answer, now, environ, sent, filters,
                       panel>>

\* A user walks the Quick and the Document flow forward, one update at a
\* time, types the command of a flow at a step with an inline keyboard, and
\* presses the buttons of the messages left behind.  Bound on the inputs: the
\* commands typed are those of the Quick and the Document flow
OldButtonSteps ==
    {"Quick:category", "Quick:urgency", "Quick:offer", "DocumentFlow:type",
     "DocumentFlow:plan"}

LeaveEvents ==
    [kind : {"text"}, val : {T_QUICK, T_CMD_DOCUMENT}, file : {Null}]

OldButtonStep(i) ==
    \/ FlowStep(i)
    \/ quick_cat_back(i) \/ quick_urg_back(i) \/ quick_offer_back(i)
    \/ document_type_back(i) \/ document_plan_back(i)

NextOldButton ==
    \/ \E u \in Users, ev \in StraightEvents : Straight(u, ev) /\ Deliver(u, ev)
    \/ \E u \in Users, ev \in LeaveEvents : Leave(u, ev)
    \/ \E u \in Users, s \in OldButtonSteps, d \in Callbacks : OldPress(u, s, d)
    \/ \E i \in TaskIds : OldButtonStep(i)

OldButtonSpec == Init /\ [][NextOldButton]_vars

\* ------------------------------------------------ every button of a card
\* The users run the Quick and the Document flow straight through, before
\* and after the staff user on duty opens the panel; the staff user presses
\* every button that the menu, the lists and the cards of the panel show, and
\* the buttons of the notification cards.  Bound on the inputs: the buttons of
\* the filters view are not pressed
ShownButton(a, d) ==
    /\ d \in Keyboard(panel[a])
    /\ Browse(a, d) \/ Act(a, d)

NextStatus ==
    \/ \E u \in Users, ev \in StraightEvents : Straight(u, ev) /\ Deliver(u, ev)
    \/ \E i \in TaskIds : FlowStep(i)
    \/ \E a \in OnDuty : Open(a)
    \/ \E a \in OnDuty : \E d \in Keyboard(panel[a]) : ShownButton(a, d)
    \/ \E a \in OnDuty, d \in CardButtons : PressCard(a, d)

StatusSpec == Init /\ [][NextStatus]_vars

\* ------------------------------------------------- the ADMIN_IDS setting
\* The program starts with any value of ADMIN_IDS in the environment; both
\* modules parse it at import.  The users run the Quick and the Document
\* flow, then callers ask for the export of app/admin.py and for the
\* attachments of app/handlers.py.  Bounds on the inputs: the setting has up
\* to MaxSetting characters out of SettingChars, and the callers are the
\* user, the ids that such a setting can name and the fallback of admin.py
MaxSetting == 3
SettingChars == {"8", "9", ","}
Settings == UNION {[1..n -> SettingChars] : n \in 0..MaxSetting}
Callers == {1, 8, 9, 89, FALLBACK_ADMIN}

InitEnv ==
    /\ fsm_state = [u \in Users |-> NoState]
    /\ fsm_data = [u \in Users |-> EmptyData]
    /\ tasks = <<>>
    /\ leads = {}
    /\ documents = {}
    /\ log = <<>>
    /\ runs = [u \in Users |-> 0]
    /\ entered = [u \in Users |-> EmptyData]
    /\ overlaps = 0
    /\ answer = Null
    /\ now = 0
    /\ filters = [a \in Admins |-> <<>>]
    /\ panel = [a \in Admins |-> NoPanel]
    /\ environ \in Settings
    /\ sent = <<>>
    /\ left = {}

AskExport(a) == Quiet /\ admin_export(a)
AskFiles(a, id) == Quiet /\ admin_send_attachments(a, id)

NextEnv ==
    \/ \E u \in Users, ev \in StraightEvents :
          Untouched /\ Straight(u, ev) /\ Deliver(u, ev)
    \/ \E i \in TaskIds : FlowStep(i)
    \/ \E a \in Callers : AskExport(a)
    \/ \E a \in Callers, id \in LeadIds : AskFiles(a, id)

EnvSpec == InitEnv /\ [][NextEnv]_vars

\* ====================================================== properties checked
\* the log entries of the leads created by instance n of user u
LeadsOf(u, n) == {k \in DOMAIN log : log[k].user = u /\ log[k].inst = n}

\* a finalize that has committed its lead
Finalized(t) == t.pc \in {"mirror", "notify", "reply"}

FirstSteps == {QuickSteps[1], BookingSteps[1], DocumentSteps[1]}

\* the fixed tag of the flow that step s belongs to
FlowTag(s) ==
    CASE s \in Range(QuickSteps) -> "quick"
      [] s \in Range(BookingSteps) -> "booking"
      [] s \in Range(DocumentSteps) -> "document"

\* C1: processed one update at a time, a run of a flow that reaches its
\* terminal input adds exactly one lead, never a second one, and the lead
\* carries the tag of the flow whose terminal step took the input and the
\* status new.
C1_OneLeadPerRun ==
    /\ \A u \in Users : \A n \in 1..runs[u] :
         Cardinality(LeadsOf(u, n)) <= 1
    /\ \A i \in DOMAIN tasks :
         Finalized(tasks[i]) =>
           Cardinality(LeadsOf(tasks[i].user, tasks[i].inst)) = 1
    /\ Cardinality(leads) = Len(log)
    /\ \A k \in DOMAIN log : \E l \in leads :
         /\ l.id = log[k].id
         /\ l.user = log[k].user
         /\ l.source = FlowTag(log[k].at)
         /\ l.status = "new"

\* two complete runs of different flows have each added their lead
C1_Witness ==
    /\ tasks = <<>>
    /\ {l.source : l \in leads} = {"quick", "document"}
    /\ \A u \in Users : fsm_state[u] = NoState

\* C2: a flow instance never has more than one lead, however often its
\* terminal input is delivered.
C2_AtMostOneLeadPerInstance ==
    \A u \in Users : \A n \in 0..runs[u] :
        Cardinality(LeadsOf(u, n)) <= 1

\* C3: a handler selected on a session state starts its body on that same
\* state: no other handler of the user has written it in between.
C3_NoWriteBetweenSelectAndBody ==
    \A i \in DOMAIN tasks :
        tasks[i].pc = "mw" => fsm_state[tasks[i].user] = tasks[i].at

\* the ids of the leads in the table
Ids(rows) == {r.id : r \in rows}

\* C4: every document row references a lead that exists, and a step that
\* removes a lead removes exactly that lead and exactly its documents.
C4_DocumentsFollowLead ==
    [][/\ \A d \in documents' : d.lead_id \in Ids(leads')
       /\ \A l \in leads :
            l.id \notin Ids(leads') =>
              /\ leads' = leads \ {l}
              /\ documents' = {d \in documents : d.lead_id # l.id}
              /\ Cardinality(documents) - Cardinality(documents')
                   = Cardinality({d \in documents : d.lead_id = l.id})]_vars

\* a lead committed with MAX_PDFS documents has been deleted, and nothing
\* is left of it
C4_Witness ==
    /\ \E k \in DOMAIN log : log[k].files = MAX_PDFS
    /\ leads = {}
    /\ documents = {}

\* C5: right after a flow entry the Draft holds nothing: no field collected
\* before the entry is still there.
C5_EntryDiscardsDraft ==
    \A u \in Users :
        fsm_state[u] \in FirstSteps /\ entered[u] = EmptyData
            => fsm_data[u] = EmptyData

\* the step that ends the handling of an update, processed one at a time
Handled(t) == tasks = <<t>> /\ tasks' = <<>>

\* the steps of the flow that step s belongs to
FlowOf(s) ==
    CASE s \in Range(QuickSteps) -> Range(QuickSteps)
      [] s \in Range(BookingSteps) -> Range(BookingSteps)
      [] s \in Range(DocumentSteps) -> Range(DocumentSteps)

\* the update is one of the five main-menu commands
MainMenu(t) ==
    \/ t.handler \in {"blog_menu", "back_to_menu", "about", "quick_entry",
                      "booking_entry"}
    \/ Routed(t.handler, t.ev)

\* C6: a main-menu command that arrives at a step of a flow leaves the
\* Draft empty and the session outside the run it arrived in.
C6_MenuCommandAborts ==
    [][\A t \in Range(tasks) :
         Handled(t) /\ MainMenu(t) /\ t.at \in Steps =>
           /\ fsm_data'[t.user] = EmptyData
           /\ \/ fsm_state'[t.user] \notin FlowOf(t.at)
              \/ runs'[t.user] # runs[t.user]]_vars

\* the step before s in its flow (s is not a first step)
PrevStep(s) ==
    LET flow == CASE s \in Range(QuickSteps) -> QuickSteps
                  [] s \in Range(BookingSteps) -> BookingSteps
                  [] s \in Range(DocumentSteps) -> DocumentSteps
        k == CHOOSE j \in DOMAIN flow : flow[j] = s
    IN  flow[k - 1]

\* the back input of a step: the Back button of the keyboard it shows
InlineSteps ==
    {"Quick:category", "Quick:urgency", "Quick:offer", "Booking:fmt",
     "Booking:dur", "DocumentFlow:type", "DocumentFlow:plan"}

BackInput(s) ==
    IF s \in InlineSteps
    THEN [kind |-> "callback", val |-> CB_BACK, file |-> Null]
    ELSE [kind |-> "text", val |-> T_BACK, file |-> Null]

BackHandlers == {Select(s, BackInput(s)) : s \in Steps}

\* C7: at every step the back input selects a handler, and that handler
\* moves a non-initial step to the step before it with the Draft as it
\* was, and an initial step to the cleared session.
C7_BackMovesOneStep ==
    [][/\ Null \notin BackHandlers
       /\ \A t \in Range(tasks) :
            Handled(t) /\ t.at \in Steps
              /\ t.handler = Select(t.at, BackInput(t.at)) =>
                IF t.at \in FirstSteps
                THEN /\ fsm_state'[t.user] = NoState
                     /\ fsm_data'[t.user] = EmptyData
                ELSE /\ fsm_state'[t.user] = PrevStep(t.at)
                     /\ fsm_data'[t.user] = fsm_data[t.user]]_vars

\* the name was given in this run and the session is back at the offer step:
\* back from contact, then back from name
C7_Witness ==
    \E u \in Users :
        /\ fsm_state[u] = "Quick:offer"
        /\ entered[u].name # Null
        /\ fsm_data[u].name = entered[u].name
        /\ tasks = <<>>

\* C8: the lead of a first Quick run carries, for every step, the outcome of
\* the latest completion of that step.
C8_LeadCarriesLatestOutcome ==
    \A i \in DOMAIN tasks :
        LET t == tasks[i]
            e == entered[t.user]
        IN  Finalized(t) /\ t.handler \in QuickFinal /\ runs[t.user] = 1 =>
              \A l \in leads :
                l.id = log[Len(log)].id =>
                  /\ l.category = e.category /\ l.brief = e.brief
                  /\ l.urgency = e.urgency /\ l.duration = e.duration
                  /\ l.name = e.name /\ l.contact = e.contact

\* C9: selecting the category again, after going back to the category step,
\* leaves the uploaded PDFs in the Draft.
C9_ReselectKeepsPdfs ==
    [][\A t \in Range(tasks) :
         Handled(t) /\ t.handler = "quick_set_category"
           /\ entered[t.user].category # Null =>
             fsm_data'[t.user].pdfs = fsm_data[t.user].pdfs]_vars

\* an input that fails the constraint of the step it arrives at
SkipTokens == {T_SKIP, T_DASH, T_MDASH}

Rejected(t) ==
    \/ /\ t.at \in {"Quick:contact", "Booking:contact"}
       /\ IsText(t.ev)
       /\ ~ValidContactOf[t.ev.val] /\ NormOf[t.ev.val] \notin BTN_SET
    \/ /\ t.at \in {"Quick:email", "Booking:email"}
       /\ IsText(t.ev)
       /\ ~ValidEmailOf[t.ev.val] /\ NormOf[t.ev.val] \notin BTN_SET
       /\ t.ev.val \notin SkipTokens
    \/ /\ t.at = "Quick:brief"
       /\ t.handler = Select("Quick:brief",
                             [kind |-> "text", val |-> T_LONG, file |-> Null])

\* C10: an invalid contact, an invalid email that is not a skip token and a
\* brief of more than 500 characters leave the step, the Draft, the leads
\* and the documents as they were.
C10_RejectedInputChangesNothing ==
    [][\A t \in Range(tasks) :
         Handled(t) /\ Rejected(t) =>
           UNCHANGED <<fsm_state, fsm_data, leads, documents>>]_vars

\* an invalid contact is in flight at the contact step of a run whose Draft
\* already holds the name
C10_Witness ==
    \E i \in DOMAIN tasks :
        /\ Rejected(tasks[i])
        /\ tasks[i].at = "Quick:contact"
        /\ fsm_data[tasks[i].user].name # Null


\* --------------------------------------------------------------------- C11
\* the spec's two shapes of a contact string: an optional leading "+", then
\* at least 7 digits that may be separated by spaces or hyphens; or "@" and
\* at least 5 letters, digits or underscores
IsDigit(c) == c \in Digits
PhoneLike(cs) ==
    LET body == IF cs # <<>> /\ cs[1] = "+" THEN Tail(cs) ELSE cs
    IN  /\ body # <<>>
        /\ \A k \in DOMAIN body : body[k] \in Digits \cup {" ", "-"}
        /\ body[1] \in Digits
        /\ Len(SelectSeq(body, IsDigit)) >= 7

HandleLike(cs) ==
    /\ Len(cs) >= 6 /\ cs[1] = "@"
    /\ \A k \in 2..Len(cs) : cs[k] \in WordChars

ContactSteps == {"Quick:contact", "Booking:contact"}
ContactOk == {"quick_contact_ok", "booking_contact_ok"}
TypedContact(t) ==
    t.at \in ContactSteps /\ t.ev.kind = "text" /\ t.ev.val \in ContactTexts

\* C11: a string typed at a contact step is accepted (the contact_ok handler
\* takes it) if and only if it is phone-like or handle-like as the spec
\* describes; so "12345" is rejected, "@abcde" is accepted, and no string
\* with fewer than 7 digits and no leading "@" is accepted.
C11_ContactAcceptedIffPhoneOrHandle ==
    \A i \in DOMAIN tasks :
        TypedContact(tasks[i]) =>
            (tasks[i].handler \in ContactOk
                <=> PhoneLike(Chars(tasks[i].ev.val))
                    \/ HandleLike(Chars(tasks[i].ev.val)))


\* --------------------------------------------------------------------- C12
\* the spec's shape of an email: local@domain.tld
IsAt(c) == c = "@"
EmailShaped(cs) ==
    /\ Len(SelectSeq(cs, IsAt)) = 1
    /\ \A k \in DOMAIN cs : cs[k] \notin Spaces
    /\ \E a \in 2..Len(cs) : \E d \in (a + 2)..(Len(cs) - 1) :
          cs[a] = "@" /\ cs[d] = "."

EmailSteps == {"Quick:email", "Booking:email"}
EmailSkip == {"quick_email_skip", "booking_email_skip"}
EmailTyped == {"quick_email", "booking_email"}

\* the update of task t is a skip token: the skip button, "-" or the dash
SkipGiven(t) ==
    \/ t.handler \in EmailSkip
    \/ t.handler \in EmailTyped /\ StripOf[t.ev.val] \in {T_DASH, T_MDASH}

\* the task at position i finalizes with this email: the session is opened
\* with the email in its copy of the Draft
FinalizesWith(i, email) ==
    /\ i \in DOMAIN tasks'
    /\ tasks'[i].pc = "db"
    /\ tasks'[i].snap.email = email

\* C12: at the email step of the Quick and Booking flows every skip token
\* (the skip button, "-", the long dash) finalizes with email = null; any
\* other text finalizes only if it has the shape local@domain.tld, and then
\* with that text; every lead's email is null or of that shape.
C12_EmailStepOutcome ==
    [][/\ \A i \in DOMAIN tasks :
            LET t == tasks[i]
            IN  /\ t.pc = "mw" /\ t.at \in EmailSteps
                /\ t.handler \in EmailSkip \cup EmailTyped
                /\ ~Routed(t.handler, t.ev)
                /\ tasks' # tasks
                => IF SkipGiven(t) THEN FinalizesWith(i, Null)
                   ELSE IF EmailShaped(Chars(StripOf[t.ev.val]))
                        THEN FinalizesWith(i, StripOf[t.ev.val])
                        ELSE tasks' = RemoveAt(tasks, i) /\ leads' = leads
       /\ \A l \in leads' :
            l.source \in {"quick", "booking"} =>
                l.email = Null \/ EmailShaped(Chars(l.email))]_vars


\* --------------------------------------------------------------------- C13
DocumentsOf(l, docs) == {d \in docs : d.lead_id = l.id}

\* an upload at the brief step that the spec wants refused: a PDF when
\* MAX_PDFS are held already, or a file that is not a PDF
RefusedUpload(t) ==
    /\ t.handler = "quick_brief_pdf"
    /\ \/ t.ev.val # MIME_PDF
       \/ Len(fsm_data[t.user].pdfs) >= 2

\* C13: in the Quick flow's brief step the Draft never holds more than 2
\* PDFs; a PDF sent when 2 are held, and any file that is not a PDF, leaves
\* the list and the step unchanged and the flow goes on; a quick lead never
\* has more than 2 attachments.
C13_PdfCap ==
    [][/\ \A u \in Users : Len(fsm_data'[u].pdfs) <= 2
       /\ \A l \in leads' :
            l.source = "quick" => Cardinality(DocumentsOf(l, documents')) <= 2
       /\ \A t \in Range(tasks) :
            Handled(t) /\ RefusedUpload(t) =>
                /\ UNCHANGED <<fsm_state, fsm_data, leads, documents>>
                /\ fsm_state'[t.user] = "Quick:brief"]_vars

\* the third PDF of a flow is being handled
C13_Witness ==
    \E i \in DOMAIN tasks :
        /\ tasks[i].handler = "quick_brief_pdf"
        /\ tasks[i].ev.val = MIME_PDF
        /\ Len(fsm_data[tasks[i].user].pdfs) = MAX_PDFS


\* --------------------------------------------------------------------- C14
\* the file references a finalize finds in its copy of the Draft
DraftFiles(t) == Range(t.snap.pdfs) \cup Range(t.snap.doc_file_ids)

\* C14: on finalize of any flow every file reference accumulated in the
\* Draft becomes an attachment of the new lead in the commit that creates
\* the lead, for files of the Document flow's upload step as well as for the
\* PDFs of the Quick flow's brief step.
C14_DraftFilesBecomeAttachments ==
    [][\A i \in DOMAIN tasks :
          /\ tasks[i].pc = "db"
          /\ i \in DOMAIN tasks' /\ tasks'[i].pc = "mirror"
          => LET id == log'[Len(log')].id
             IN  {d.file_id : d \in {x \in documents' : x.lead_id = id}}
                    = DraftFiles(tasks[i])]_vars


\* --------------------------------------------------------------------- C15
\* C15: every lead of the Quick or the Booking flow in the table has a name
\* and a contact, whatever the order and the interleaving of the user's
\* events (back, abort and flow entry arriving while another is handled).
C15_NameAndContactPresent ==
    \A l \in leads :
        l.source \in {"quick", "booking"} =>
            l.name # Null /\ l.contact # Null


\* --------------------------------------------------------------------- C16
\* C16: the Document flow can be finalized with only a type tag: a run that
\* selects a document type and never sends a comment text still reaches the
\* finalize transition and produces a document lead with brief = null.
\* Stated over the runs in which the user keeps sending every accepted input
\* other than a comment: either a comment is written after all, or the run
\* that has selected the type ends in such a lead.
C16_TypeTagSuffices ==
    \/ <>(\E u \in Users : entered[u].doc_comment # Null)
    \/ \A u \in Users :
          (fsm_state[u] = "DocumentFlow:upload" /\ log = <<>>)
             ~> (\E l \in leads : l.source = "document" /\ l.brief = Null)


\* --------------------------------------------------------------------- C17
\* C17: a straight run of the Quick flow (no back) produces a lead whose
\* category, brief, urgency, name and contact are the values entered at
\* their steps, whose email is null when the email step was skipped and
\* whose duration is null when the consultation offer was skipped.
C17_StraightRunValues ==
    \A i \in DOMAIN tasks :
        Finalized(tasks[i]) /\ tasks[i].handler \in QuickFinal =>
            LET e == entered[tasks[i].user]
            IN  \E l \in leads :
                  /\ l.id = log[Len(log)].id
                  /\ l.source = "quick"
                  /\ l.category = e.category /\ l.brief = e.brief
                  /\ l.urgency = e.urgency /\ l.name = e.name
                  /\ l.contact = e.contact
                  /\ tasks[i].handler = "quick_email_skip" => l.email = Null
                  /\ e.duration = Null => l.duration = Null


\* --------------------------------------------------------------------- C18
Rank(pc) ==
    CASE pc = "mirror" -> 1 [] pc = "notify" -> 2 [] pc = "reply" -> 3
      [] OTHER -> 0

\* C18: a failure of the mirror call or of a notifier send during finalize
\* never removes the lead already committed, is not retried, and does not
\* stop the finalize: the handler goes on to the confirmation reply and
\* discards the Draft.
C18_SideEffectFailureIsDropped ==
    [][\A i \in DOMAIN tasks :
          LET t == tasks[i]
          IN  Finalized(t) /\ tasks' # tasks =>
                /\ \E l \in leads' : l.id = log[Len(log)].id
                /\ leads \subseteq leads' /\ documents \subseteq documents'
                /\ IF tasks' = RemoveAt(tasks, i)
                   THEN /\ t.pc = "reply"
                        /\ fsm_state'[t.user] = NoState
                        /\ fsm_data'[t.user] = EmptyData
                   ELSE /\ Rank(tasks'[i].pc) = Rank(t.pc) + 1
                        /\ t.failed \subseteq tasks'[i].failed]_vars

\* a finalize whose mirror call and notifier send both failed is about to
\* send the confirmation reply
C18_Witness ==
    \E i \in DOMAIN tasks :
        tasks[i].pc = "reply" /\ tasks[i].failed = {"mirror", "notify"}


\* --------------------------------------------------------------------- C19
\* C19: the confirmation reply never waits for the external side effects:
\* in every finalize the reply to the user and the discarding of the Draft
\* can occur while the mirror call or the staff notifications have not
\* completed, so a call that never returns cannot hold the reply back.
C19_ReplyDoesNotWait ==
    \A i \in DOMAIN tasks :
        tasks[i].pc \in {"mirror", "notify"} => ENABLED finalize_reply(i)


\* --------------------------------------------------------------------- C20
\* the lead of the table that carries `id`, its status replaced
WithStatus(id, st) ==
    {IF l.id = id THEN [l EXCEPT !.status = st] ELSE l : l \in leads}

\* C20: a staff status change on an existing lead is accepted whatever the
\* lead's current status and whatever the requested one: it answers "status
\* updated", sets that lead's status to the requested value and touches no
\* other lead and no document; on a lead that already has the requested
\* status (the same change applied twice in a row) it is accepted again and
\* leaves the table as it is.  On an id that no lead carries it answers
\* "lead not found" and leaves leads and documents unchanged.
C20_StatusChange ==
    [][\A a \in Admins, id \in LeadIds, st \in StatusButtons :
          admin_set_status(a, id, st, "all", 0) =>
            /\ documents' = documents
            /\ IF id \in Ids(leads)
               THEN /\ answer' = STATUS_UPDATED
                    /\ leads' = WithStatus(id, st)
                    /\ \A l \in leads :
                          l.id = id /\ l.status = st => leads' = leads
               ELSE /\ answer' = NOT_FOUND
                    /\ leads' = leads]_vars

\* a status change has just been accepted and a lead is closed, while the
\* table holds a second lead that staff moved to another status
C20_Witness ==
    /\ answer = STATUS_UPDATED
    /\ \E l, m \in leads :
          l.status = "closed" /\ m.id # l.id /\ m.status = "in_review"


\* --------------------------------------------------------------------- C21
\* C21: the source and the created_at of a lead never change after its
\* creation: in every step a lead that stays in the table keeps every field
\* but its status, and a staff status change gives the targeted lead the
\* requested status and leaves every other field of it, every other lead and
\* every document as they were.
C21_OnlyStatusChanges ==
    [][/\ \A l \in leads : \A m \in leads' :
            l.id = m.id => m = [l EXCEPT !.status = m.status]
       /\ \A a \in Admins, id \in LeadIds, st \in StatusButtons,
             scope \in Scopes :
            admin_set_status(a, id, st, scope, 0) =>
               /\ leads' = WithStatus(id, st)
               /\ documents' = documents]_vars

\* a status change has just closed a lead that was created on an earlier
\* day, later than day 0, and that has a document; another lead is untouched
C21_Witness ==
    /\ answer = STATUS_UPDATED
    /\ \E l, m \in leads :
          /\ l.status = "closed" /\ 0 < l.created_at /\ l.created_at < now
          /\ \E d \in documents : d.lead_id = l.id
          /\ m.id # l.id /\ m.status = "new"


\* --------------------------------------------------------------------- C22
\* C22: every created lead receives an id that is strictly greater than the
\* id of every lead created before it, the leads that staff have deleted
\* since included: the ids of the leads ever committed, in the order of
\* their creation, are strictly increasing.
C22_IdsNeverReused ==
    \A j, k \in DOMAIN log : j < k => log[j].id < log[k].id


\* --------------------------------------------------------------------- C23
\* C23: created_at is monotonically non-decreasing across finalizations:
\* whenever lead A has a smaller id than lead B (A was created before B),
\* created_at of A is at most created_at of B, also when the finalizations
\* of two different users overlap.
C23_CreatedAtFollowsId ==
    \A l, m \in leads : l.id < m.id => l.created_at <= m.created_at

\* the finalizations of the two users overlap: both have committed their
\* lead, on different days, and neither has sent its reply yet
C23_Witness ==
    /\ Len(log) = 2
    /\ log[1].user # log[2].user
    /\ \E i \in DOMAIN tasks :
          tasks[i].user = log[2].user /\ tasks[i].pc \in {"mirror", "notify"}
    /\ \E i \in DOMAIN tasks :
          tasks[i].user = log[1].user /\ tasks[i].pc \in {"mirror", "notify"}
    /\ \E l, m \in leads : l.created_at < m.created_at


\* --------------------------------------------------------------------- C24
\* a step in which staff user a applies a filter value
SetsFilter(a) ==
    \E key \in {"status", "source", "period"} :
       \E value \in STATUS_LABELS \cup SOURCE_LABELS \cup PERIOD_LABELS :
          admin_filters_set(a, key, value)

\* C24: the first get of a staff user's FilterSet, and every get that follows
\* a clear with no set in between, returns status any, source any and the
\* window of 30 days, whatever was set before the clear.  Step by step: the
\* first FilterSet printed for a staff user who has none stored is the
\* default one unless the step itself is a set; a clear prints the default
\* FilterSet and leaves it as what the next get returns; and a step that is
\* no set of that staff user never turns a default FilterSet into another.
C24_DefaultFilterSet ==
    [][\A a \in Admins :
         LET dflt == [status |-> "any", source |-> "any", period |-> "30d"]
         IN /\ filters[a] = <<>> /\ panel'[a].f # <<>> /\ ~SetsFilter(a)
                 => panel'[a].f = <<dflt>>
            /\ admin_filters_clear(a)
                 => /\ panel'[a].f = <<dflt>>
                    /\ get_filters(filters', a) = dflt
            /\ get_filters(filters, a) = dflt /\ ~SetsFilter(a)
                 => get_filters(filters', a) = dflt]_vars

\* staff user 9 has just cleared the filters and sees the default FilterSet,
\* while the other staff user keeps a status filter
C24_Witness ==
    /\ answer = RESET
    /\ panel[9] = FiltersPanel([status |-> "any", source |-> "any",
                                period |-> "30d"])
    /\ filters[8] # <<>>
    /\ filters[8][1].status = "closed"


Labels ==
    [status |-> STATUS_LABELS, source |-> SOURCE_LABELS,
     period |-> PERIOD_LABELS]

\* the lead l satisfies every field of the FilterSet f that is not "any"
\* (for the window: not all-time), at the time `now`
Satisfies(l, f) ==
    /\ f.status = "any" \/ l.status = f.status
    /\ f.source = "any" \/ l.source = f.source
    /\ \/ f.period = "all"
       \/ f.period = "7d" /\ l.created_at >= now - 7
       \/ f.period = "30d" /\ l.created_at >= now - 30
       \/ f.period = "90d" /\ l.created_at >= now - 90

\* the ids on the list that staff user a sees after the step
Listed(a) == {panel'[a].items[k] : k \in DOMAIN panel'[a].items}

\* for the table and the FilterSet of a of the current state, setting the
\* field k1 and then k2 gives what setting k2 and then k1 gives
Commute(a, k1, k2) ==
    \A v1 \in Labels[k1], v2 \in Labels[k2] :
       LET F12 == set_filter(set_filter(filters, a, k1, v1), a, k2, v2)
           F21 == set_filter(set_filter(filters, a, k2, v2), a, k1, v1)
       IN  /\ get_filters(F12, a) = get_filters(F21, a)
           /\ \A scope \in Scopes :
                 Query(leads, scope, 0, get_filters(F12, a))
                    = Query(leads, scope, 0, get_filters(F21, a))

\* C26: filter composition is order-independent: for every content of the
\* table, setting two distinct fields in one order yields the same FilterSet
\* and the same list page as setting them in the other order; and the
\* filtered list shows exactly the leads that satisfy every non-any field of
\* the FilterSet (the tables here hold fewer than 10 leads).
C26_FiltersCompose ==
    /\ [](\A a \in Admins :
            /\ Commute(a, "status", "source")
            /\ Commute(a, "status", "period")
            /\ Commute(a, "source", "period"))
    /\ [][\A a \in Admins :
            admin_list(a, "all", 0) =>
               Listed(a) = {l.id : l \in {m \in leads :
                               Satisfies(m, get_filters(filters, a))}}]_vars

\* the staff user sees the filtered list under a status, a source and a
\* window filter: one of the two leads is on it
C26_Witness ==
    /\ panel[9].view = "list"
    /\ panel[9].scope = "all"
    /\ panel[9].f = <<[status |-> "closed", source |-> "quick",
                       period |-> "7d"]>>
    /\ Len(panel[9].items) = 1
    /\ Cardinality(leads) = 2
    /\ answer = Null


\* --------------------------------------------------------------------- C27
\* C27: a list of the new-only scope shows leads of status new only,
\* whatever the status field of the staff user's FilterSet is; a list of
\* the filtered scope shows a lead only if it matches the status of the
\* FilterSet (unless any), its source (unless any) and was created no
\* earlier than now minus the window (unless the window is all-time).  The
\* lists are those that the list buttons and the delete button render.
C27_ScopeDecidesStatus ==
    [][\A a \in Admins : \A scope \in Scopes :
         (\/ admin_list(a, scope, 0)
          \/ \E id \in LeadIds :
                admin_delete_lead(a, id, scope, 0) /\ answer' = DELETED)
         => \A l \in leads' :
               l.id \in Listed(a) =>
                  IF scope = "new" THEN l.status = "new"
                  ELSE Satisfies(l, get_filters(filters, a))]_vars

\* the staff user sees the new-only list while their FilterSet asks for
\* closed leads: the new lead is on it and the closed one is not
C27_Witness ==
    /\ panel[9].view = "list"
    /\ panel[9].scope = "new"
    /\ panel[9].f # <<>>
    /\ panel[9].f[1].status = "closed"
    /\ \E l, m \in leads :
          /\ l.status = "new" /\ panel[9].items = <<l.id>>
          /\ m.status = "closed"


\* --------------------------------------------------------------------- C28
\* a step in which the list of the scope and page is rendered for staff user
\* a: by a list button, or after a delete
Lists(a, scope, page) ==
    \/ admin_list(a, scope, page)
    \/ \E id \in LeadIds \cup {11, 21} :
          admin_delete_lead(a, id, scope, page) /\ answer' = DELETED

\* the leads of the table after the step that match the scope and the
\* FilterSet of a
Matching(a, scope) ==
    {l \in leads' :
        /\ scope = "new" => l.status = "new"
        /\ Satisfies(l, IF scope = "new"
                        THEN [get_filters(filters, a) EXCEPT !.status = "any"]
                        ELSE get_filters(filters, a))}

\* the lead shown at position k of the page rendered by the step
ItemAt(a, k) == CHOOSE l \in leads' : l.id = panel'[a].items[k]

MinOf(x, y) == IF x < y THEN x ELSE y

\* C28: a list page holds at most 10 leads, ordered by created_at
\* descending, and they are exactly the positions 10p to 10p+9 of the
\* newest-first sequence of the leads that match the scope and the
\* FilterSet: the page has as many leads as the sequence has at those
\* positions, they are distinct matching leads, and the lead at position k of
\* the page has fewer than 10p+k matching leads that are newer and at least
\* 10p+k that are as new or newer (leads of equal created_at may come in
\* either order).  With 15 new leads, page 0 of the new-only scope holds 10
\* leads, each as new as or newer than every new lead left out.
C28_PageOfNewestFirst ==
    [][\A a \in Admins, scope \in Scopes, p \in 0..2 :
         Lists(a, scope, p) =>
            LET items == panel'[a].items
                M == Matching(a, scope)
                n == Cardinality(M)
            IN  /\ Len(items) <= 10
                /\ Len(items) = IF n <= 10 * p THEN 0
                                ELSE MinOf(10, n - 10 * p)
                /\ \A k \in DOMAIN items : \E l \in M : l.id = items[k]
                /\ \A j, k \in DOMAIN items :
                      /\ j # k => items[j] # items[k]
                      /\ j < k => ItemAt(a, j).created_at
                                     >= ItemAt(a, k).created_at
                /\ \A k \in DOMAIN items :
                      LET t == ItemAt(a, k).created_at
                      IN  /\ Cardinality({m \in M : m.created_at > t})
                                < 10 * p + k
                          /\ Cardinality({m \in M : m.created_at >= t})
                                >= 10 * p + k
                /\ (scope = "new" /\ p = 0 /\ n = 15) =>
                      /\ Len(items) = 10
                      /\ \A k \in DOMAIN items : \A m \in M :
                            (\A j \in DOMAIN items : items[j] # m.id) =>
                               ItemAt(a, k).created_at >= m.created_at]_vars

\* 15 new leads exist and the staff user sees page 0 of the new-only list:
\* the leads 15 down to 6
C28_Witness ==
    /\ Cardinality(leads) = 15
    /\ \A l \in leads : l.status = "new"
    /\ panel[9].view = "list"
    /\ panel[9].scope = "new"
    /\ panel[9].page = 0
    /\ panel[9].items = <<15, 14, 13, 12, 11, 10, 9, 8, 7, 6>>


\* --------------------------------------------------------------------- C29
\* C29: the keyboard under a rendered list page offers the next page if and
\* only if the page holds exactly 10 leads and the previous page if and only
\* if the page number is greater than 0; so no list button that a staff user
\* can press carries a negative page number.
C29_PageButtons ==
    \A a \in Admins :
       LET p == panel[a]
           kb == Keyboard(p)
       IN  /\ p.view = "list" =>
                /\ <<"admin", "list", p.scope, p.page + 1>> \in kb
                      <=> Len(p.items) = 10
                /\ <<"admin", "list", p.scope, p.page - 1>> \in kb
                      <=> p.page > 0
           /\ \A d \in kb : d[2] = "list" => d[4] >= 0

\* the staff user sees a full page 1: both the previous and the next page
\* are offered
C29_Witness ==
    /\ panel[9].view = "list"
    /\ panel[9].page = 1
    /\ Len(panel[9].items) = 10
    /\ {<<"admin", "list", panel[9].scope, 0>>,
        <<"admin", "list", panel[9].scope, 2>>} \subseteq Keyboard(panel[9])


\* --------------------------------------------------------------------- C30
\* the page rendered by the step offers the next page
Offered(a) ==
    <<"admin", "list", panel'[a].scope, panel'[a].page + 1>>
       \in Keyboard(panel'[a])

\* a matching lead exists beyond page p
Further(a, scope, p) == Cardinality(Matching(a, scope)) > 10 * (p + 1)

\* the number of matching leads beyond page p
Remaining(a, scope, p) ==
    IF Further(a, scope, p)
    THEN Cardinality(Matching(a, scope)) - 10 * (p + 1) ELSE 0

\* C30 as stated: the next-page affordance of a rendered list page agrees
\* with whether a further matching lead exists beyond the page, except that
\* it is omitted although a further lead exists when the number of matching
\* leads beyond the page is an exact multiple of 10.
C30_UnderReportsAtMultiplesOfTen ==
    [][\A a \in Admins, scope \in Scopes, p \in 0..2 :
         Lists(a, scope, p) =>
            \/ Offered(a) <=> Further(a, scope, p)
            \/ /\ ~Offered(a)
               /\ Further(a, scope, p)
               /\ Remaining(a, scope, p) % 10 = 0]_vars

\* C30, amended: the next-page affordance is never omitted when a further
\* matching lead exists beyond the page; it is offered although no further
\* matching lead exists exactly when the page is full and no matching lead
\* is left beyond it; in every other case the affordance agrees with whether
\* a further matching lead exists.
C30_OverReportsAfterFullLastPage ==
    [][\A a \in Admins, scope \in Scopes, p \in 0..2 :
         Lists(a, scope, p) =>
            /\ Further(a, scope, p) => Offered(a)
            /\ (Offered(a) /\ ~Further(a, scope, p))
                  <=> /\ Len(panel'[a].items) = 10
                      /\ Remaining(a, scope, p) = 0]_vars

\* the table holds 10 leads and the staff user sees all of them on page 0 of
\* the filtered list, with the next page offered
C30_Witness ==
    /\ Cardinality(leads) = 10
    /\ panel[9].view = "list"
    /\ panel[9].scope = "all"
    /\ panel[9].page = 0
    /\ {panel[9].items[k] : k \in DOMAIN panel[9].items}
          = {l.id : l \in leads}
    /\ <<"admin", "list", "all", 1>> \in Keyboard(panel[9])

\* --------------------------------------------------------------------- C31
\* the refusal of the module that holds the handler of the data d: "Немає
\* доступу" of app/admin.py, "Недоступно" of app/handlers.py
RefusalOf(d) ==
    IF Route(d) \in {"admin_open_lead", "admin_change_status",
                     "admin_send_attachments"}
    THEN UNAVAILABLE ELSE NO_ACCESS

Refused(text) ==
    /\ answer' = text
    /\ UNCHANGED <<leads, documents, filters, panel, sent>>

NotStaff(u) == ~is_admin(u) /\ ~_is_admin(u)

\* C31: an admin-only operation (/admin, menu, list, filters set and clear,
\* open lead, status change, delete, export, attachments, from the panel or
\* from a notification card) that a user who is not staff invokes changes no
\* lead, no document, no filter set, no panel and sends no file, and its
\* answer is the refusal of the operation, whatever the leads table holds and
\* whether or not the data names a lead
C31_OutsiderRefused ==
    [][\A u \in Users : NotStaff(u) =>
          /\ admin_entry(u) => Refused(ACCESS_DENIED)
          /\ \A d \in PanelButtons : Invoke(u, d) => Refused(NO_ACCESS)
          /\ \A d \in CardButtons :
                Dispatch(u, d) => Refused(RefusalOf(d))]_vars

\* a user who is not staff asked for the attachments while documents are
\* stored and the staff user has a filter set and a card on the panel
C31_Witness ==
    /\ answer = UNAVAILABLE
    /\ documents # {}
    /\ filters[9] # <<>>
    /\ panel[9].view = "card"

\* --------------------------------------------------------------------- C32
NotFoundNotice ==
    /\ answer' = NOT_FOUND
    /\ UNCHANGED <<leads, documents>>

\* the panel of a shows a page of the list of scope without the lead id
Relisted(a, id, scope, page) ==
    /\ panel'[a].view = "list"
    /\ panel'[a].scope = scope
    /\ panel'[a].page = page
    /\ \A k \in DOMAIN panel'[a].items : panel'[a].items[k] # id
    /\ \E items \in Query(leads', scope, page, get_filters(filters', a)) :
          panel'[a].items = IdsOf(items)

\* C32: a delete or an open-detail request of a staff user for an id without
\* a lead (never created, or deleted before) is answered with the not-found
\* notice and changes no lead and no document; a delete of a lead renders
\* the list page of the scope and page number of the request, read after the
\* delete, and the lead is not on it
C32_NotFoundAndRerender ==
    [][\A a \in OnDuty, id \in LeadIds :
         /\ fetch_lead(id) = {} /\ admin_open_lead_from_notify(a, id)
               => NotFoundNotice
         /\ \A scope \in Scopes, page \in 0..1 :
              /\ fetch_lead(id) = {}
                 /\ (\/ admin_delete_lead(a, id, scope, page)
                     \/ admin_open_lead_from_list(a, id, scope, page))
                    => NotFoundNotice
              /\ fetch_lead(id) # {} /\ admin_delete_lead(a, id, scope, page)
                    => Relisted(a, id, scope, page)]_vars

\* after a delete the same delete button was pressed again
C32_Witness ==
    /\ answer = NOT_FOUND
    /\ panel[9].view = "list"
    /\ Len(log) > Cardinality(leads)
    /\ leads # {}
    /\ documents # {}

\* --------------------------------------------------------------------- C33
\* the rows of the file are the leads of the table, one row each
OneRowEach(file) ==
    /\ Len(file) = Cardinality(leads)
    /\ {file[k].id : k \in DOMAIN file} = {l.id : l \in leads}

NewestFirst(file) ==
    \A j, k \in DOMAIN file : j < k => file[j].created_at >= file[k].created_at

\* the contact of the row is the stored one behind exactly one apostrophe,
\* or empty when none is stored, and formatting it again changes nothing
ContactForced(row) ==
    \A l \in fetch_lead(row.id) :
       /\ OrEmpty(l.contact) = <<>> => row.contact = <<>>
       /\ OrEmpty(l.contact) # <<>> =>
             /\ row.contact = <<"'">> \o OrEmpty(l.contact)
             /\ row.contact[2] # "'"
       /\ ExportContact(row.contact) = row.contact

OneLine(row) == \A k \in DOMAIN row.brief : row.brief[k] # "\n"

\* C33: the file that an export sends holds one row for every lead of the
\* table, newest first, whatever the FilterSet of the staff user; in every row
\* a contact that is not empty stands behind exactly one apostrophe, which
\* formatting it again keeps, and the brief holds no newline
C33_ExportRows ==
    [][\A a \in OnDuty : is_admin(a) /\ admin_export(a) =>
          LET file == sent'[1].body
          IN  /\ OneRowEach(file)
              /\ NewestFirst(file)
              /\ \A k \in DOMAIN file :
                    ContactForced(file[k]) /\ OneLine(file[k])]_vars

\* an export of two leads of different days, one with a brief of two lines,
\* while the FilterSet of the staff user asks for closed leads
C33_Witness ==
    /\ sent # <<>>
    /\ sent[1].kind = "export"
    /\ Len(sent[1].body) = 2
    /\ sent[1].body[1].created_at > sent[1].body[2].created_at
    /\ \E l \in leads : l.brief = T_TWO_LINES
    /\ \E l \in leads : l.contact # Null
    /\ filters[9] # <<>>
    /\ filters[9][1].status = "closed"

\* --------------------------------------------------------------------- C34
\* a finalize added one lead and the documents of that lead
LeadAdded ==
    /\ \E i \in DOMAIN tasks :
          finalize_quick(i) \/ finalize_booking(i) \/ document_finish_commit(i)
    /\ \E l \in leads' \ leads :
          /\ leads' = leads \cup {l}
          /\ documents \subseteq documents'
          /\ \A d \in documents' \ documents : d.lead_id = l.id

\* a status change of a staff user changed the status of one lead
StatusChanged ==
    /\ \E a \in OnDuty, id \in LeadIds, st \in StatusButtons :
          \E scope \in Scopes :
             is_admin(a) /\ admin_set_status(a, id, st, scope, 0)
    /\ \E l \in leads, st \in StatusButtons :
          leads' = (leads \ {l}) \cup {[l EXCEPT !.status = st]}
    /\ documents' = documents

\* a delete of a staff user removed one lead and the documents of that lead
StaffDeleted ==
    /\ \E a \in OnDuty, id \in LeadIds, scope \in Scopes :
          is_admin(a) /\ admin_delete_lead(a, id, scope, 0)
    /\ \E l \in leads :
          /\ leads' = leads \ {l}
          /\ documents' = {d \in documents : d.lead_id # l.id}

\* C34: a step that changes the leads or the documents is a finalize that
\* adds one lead and its documents, a status change of a staff user on one
\* lead, or a delete of a staff user of one lead and its documents; every
\* other step (entries, inputs, back, menu, list, filters, open, export, the
\* buttons of a notification card) leaves both tables as they are
C34_OnlyThreeWriters ==
    [][leads' # leads \/ documents' # documents =>
          LeadAdded \/ StatusChanged \/ StaffDeleted]_vars

\* two leads were created, one was deleted, the other closed, and the table
\* was exported
C34_Witness ==
    /\ Len(log) = 2
    /\ Cardinality(leads) = 1
    /\ \E l \in leads : l.status = "closed"
    /\ sent # <<>>
    /\ sent[1].kind = "export"

\* --------------------------------------------------------------------- C35
\* the step is a step of an update of user u
StepOf(u) == \E i \in DOMAIN tasks : tasks[i].user = u /\ IsolationStep(i)

\* C35: the session step and the Draft of a user change only in a step of an
\* update of that user: an update of another user, be it accepted, rejected
\* by the validation or followed by a failed mirror or notification, leaves
\* them as they are, however the updates of the two users interleave
C35_OwnSessionOnly ==
    [][\A b \in Pair :
          fsm_state'[b] # fsm_state[b] \/ fsm_data'[b] # fsm_data[b]
             => StepOf(b)]_vars

\* user 1 is finalizing after a failed mirror call while a rejected contact
\* of user 2, who is in the middle of the flow with a Draft, is in flight
C35_Witness ==
    /\ \E i \in DOMAIN tasks :
          /\ tasks[i].user = 1
          /\ tasks[i].pc = "reply"
          /\ tasks[i].failed # {}
    /\ \E i \in DOMAIN tasks :
          tasks[i].user = 2 /\ tasks[i].handler = "quick_contact_bad"
    /\ fsm_state[2] = "Quick:contact"
    /\ fsm_data[2] # EmptyData

\* --------------------------------------------------------------------- C36
\* the status button of the notification card of the lead id
CardStatusButton(id, st) == <<"admin", "lead", "status", str(id), st>>

\* C36: when a staff user presses a status button of the notification card
\* of a lead that exists, with the admin router registered before the flow
\* router, the status of the lead becomes the status of the button, the card
\* is rendered again, and no handler that raises takes the press
C36_CardStatusApplied ==
    [][\A a \in OnDuty, id \in LeadIds, st \in {"in_review", "closed"} :
          fetch_lead(id) # {} /\ PressCard(a, CardStatusButton(id, st)) =>
             /\ \A l \in leads' : l.id = id => l.status = st
             /\ panel'[a].card # <<>>
             /\ answer' # RAISED]_vars

\* --------------------------------------------------------------------- C37
\* C37: a finalize does not discard session state that it did not read: when
\* the user entered a flow after the finalize read the Draft, the step and
\* the Draft of that flow are the same after the last step of the finalize
C37_FinalizeKeepsNewFlow ==
    [][\A i \in DOMAIN tasks :
          finalize_reply(i) /\ runs[tasks[i].user] > tasks[i].inst =>
             /\ fsm_state'[tasks[i].user] = fsm_state[tasks[i].user]
             /\ fsm_data'[tasks[i].user] = fsm_data[tasks[i].user]]_vars

\* --------------------------------------------------------------------- C38
\* C38: an inline button has an effect only while the session is at the step
\* it was rendered for: the press of a button of a message left at another
\* step changes neither the step nor the Draft of the user and creates no
\* lead.  In OldButtonSpec a user presses Back only on such a message, so no
\* step of a handler of Back changes the session or the leads
OldBackHandlers ==
    {"quick_cat_back", "quick_urg_back", "quick_offer_back",
     "document_type_back", "document_plan_back"}

C38_OldButtonsInert ==
    [][\A i \in DOMAIN tasks :
          tasks[i].handler \in OldBackHandlers
              => /\ fsm_state'[tasks[i].user] = fsm_state[tasks[i].user]
                 /\ fsm_data'[tasks[i].user] = fsm_data[tasks[i].user]
                 /\ leads' = leads]_vars

\* --------------------------------------------------------------------- C39
\* the values that the status column takes (Lead.status)
LeadStatuses == {"new", "in_review", "scheduled", "closed"}

\* a staff status change that targets the lead id
StatusChangeOf(id) ==
    \E a \in OnDuty, st \in LeadStatuses, scope \in Scopes :
       is_admin(a) /\ admin_set_status(a, id, st, scope, 0)

\* C39: the status of every lead is one of new, in_review, scheduled and
\* closed; a lead is created with the status new; the status of a lead
\* changes only in a staff status change that targets the lead; and while
\* the staff press the buttons that the keyboards show, no step sets a status
\* that has left new back to new
C39_StatusLifecycle ==
    /\ [](\A l \in leads : l.status \in LeadStatuses)
    /\ [][/\ \A k \in leads' :
                (\A l \in leads : l.id # k.id) => k.status = "new"
          /\ \A l \in leads, k \in leads' :
                k.id = l.id /\ k.status # l.status
                    => k.status # "new" /\ StatusChangeOf(l.id)]_vars

\* a staff user moved the first lead to scheduled and sees its card, with
\* the status buttons, while the lead created after it is still new
C39_Witness ==
    /\ \E l \in leads : l.status = "scheduled" /\ l.id = 1
    /\ \E l \in leads : l.status = "new" /\ l.id = 2
    /\ \E a \in OnDuty :
          /\ panel[a].view = "card"
          /\ panel[a].card[1].id = 1
          /\ answer = STATUS_UPDATED

\* --------------------------------------------------------------------- C40
\* C40: for every value of the ADMIN_IDS setting, the empty one included,
\* the users that app/admin.py admits to the panel are the users that
\* app/handlers.py notifies of new leads and admits to the actions of the
\* notification card
C40_SameStaff == ADMIN_IDS = handlers_ADMIN_IDS

=============================================================================
